---- MODULE Spec2Model ----
(***************************************************************************)
(* KubeFleet hub agent: the namespace-affinity scheduler plugin, the       *)
(* scheduling cycle that drives it, and the update-run metric emitters.    *)
(***************************************************************************)
EXTENDS Integers, Sequences, FiniteSets, TLC

(***************************************************************************)
(* Bounds of the model.                                                    *)
(***************************************************************************)
\* Largest object generation / observedGeneration that is enumerated.
MaxGen == 2
\* Largest number of status-timestamp series kept in the gauge at once.
MaxSeries == 2
\* Largest number of member-cluster status updates in one behaviour.
MaxChanges == 2
\* Latest wall-clock second that is enumerated.
MaxTime == 1
\* Largest number of samples kept in one histogram series.
MaxSamples == 2
\* Largest number of series the three update-run metrics hold together when
\* runs are deleted.
MaxTotalSeries == 3
\* Largest number of consecutive failures of one work-queue item.
MaxFailures == 4
\* Largest number of calls of the rate limiter's When.
MaxCalls == 5
\* Largest number of steps of the work-queue clock.
MaxTicks == 2
\* Largest number of stages of an update run.
MaxStages == 2
\* Largest number of Set calls made on the flags.
MaxSetCalls == 2

(***************************************************************************)
(* Value domains.                                                          *)
(***************************************************************************)
\* Namespace names that can be keys of a cluster's namespace inventory.
NsNames == {"test-namespace", "other-ns"}
\* Representative identifiers (work names) mapped to a namespace, "" included.
WorkNames == {"", "w1"}
\* Namespaces a policy snapshot can live in; "" is a cluster-scoped snapshot.
SnapshotNamespaces == {"", "test-namespace", "other-ns"}
\* Names a plugin can be constructed with.
PluginNames == {"NamespaceAffinity", "custom-name"}

NamespaceCollectionSucceededCondType == "NamespaceCollectionSucceeded"
OtherCondType == "Joined"

\* metav1.Condition; the nil pointer is the record NilCond.
NilCond == [Type |-> "<nil>", Status |-> "", ObservedGeneration |-> 0, Reason |-> ""]

Cond(type, status) ==
    [Type |-> type, Status |-> status, ObservedGeneration |-> 0, Reason |-> ""]

\* meta.FindStatusCondition: the first condition of the given type, or nil.
FindStatusCondition(conditions, conditionType) ==
    IF \E i \in 1..Len(conditions) : conditions[i].Type = conditionType
    THEN conditions[CHOOSE i \in 1..Len(conditions) :
                        /\ conditions[i].Type = conditionType
                        /\ \A j \in 1..(i - 1) : conditions[j].Type # conditionType]
    ELSE NilCond

\* A Go map[string]string: nil, or the entries of a non-nil map.
NilMap == [isNil |-> TRUE, entries |-> <<>>]
MakeMap(f) == [isNil |-> FALSE, entries |-> f]
MapHasKey(m, k) == (~m.isNil) /\ k \in DOMAIN m.entries

NamespaceMaps ==
    {NilMap} \cup {MakeMap(f) : f \in UNION {[D -> WorkNames] : D \in SUBSET NsNames}}

\* The condition lists a member cluster's status can carry.
ClusterConditionLists ==
    { <<>>, <<Cond(OtherCondType, "True")>> }
    \cup { <<Cond(NamespaceCollectionSucceededCondType, s)>> : s \in {"True", "False"} }
    \cup { <<Cond(OtherCondType, "True"), Cond(NamespaceCollectionSucceededCondType, s)>> :
             s \in {"True", "False"} }

MemberClusters ==
    [Conditions : ClusterConditionLists, Namespaces : NamespaceMaps]

PolicySnapshots == [Namespace : SnapshotNamespaces]

(***************************************************************************)
(* framework.Status.  The nil *Status is the record NilStatus.             *)
(***************************************************************************)
NilStatus == [code |-> "<nil>", pluginName |-> "", message |-> ""]

NewNonErrorStatus(code, pluginName, reason) ==
    [code |-> code, pluginName |-> pluginName, message |-> reason]

SkipMsg == "cluster-scoped placement does not require namespace affinity filtering"
NoNamespaceInfoMsg == "cluster has no namespace information available"
NamespaceMissingMsg == "target namespace does not exist on cluster"

(***************************************************************************)
(* The namespace-affinity plugin.                                          *)
(***************************************************************************)
\* namespaceaffinity.New with an optional WithName option.
New(name) == [name |-> name]

\* Variant: the Skip status carries the default plugin name, not the configured one.
PreFilter_DefaultName(p, snapshot) ==
    IF snapshot.Namespace = ""
    THEN NewNonErrorStatus("Skip", "NamespaceAffinity", SkipMsg)
    ELSE NilStatus

\* Variant: the plugin never opts out of Filter.
PreFilter_NeverSkip(p, snapshot) == NilStatus

PreFilter(p, snapshot) ==
    LET nsName == snapshot.Namespace IN
    IF nsName = ""
    THEN NewNonErrorStatus("Skip", p.name, SkipMsg)
    ELSE NilStatus

\* Variant: a nil inventory is reported as an internal error under the default name.
Filter_ErrorOnNilInventory(p, snapshot, mc) ==
    LET nsName == snapshot.Namespace
        cond   == FindStatusCondition(mc.Conditions, NamespaceCollectionSucceededCondType)
    IN  IF cond = NilCond
        THEN NilStatus
        ELSE IF mc.Namespaces.isNil
        THEN [code |-> "InternalError", pluginName |-> "NamespaceAffinity",
              message |-> NoNamespaceInfoMsg]
        ELSE IF ~(nsName \in DOMAIN mc.Namespaces.entries)
        THEN NewNonErrorStatus("ClusterUnschedulable", p.name, NamespaceMissingMsg)
        ELSE NilStatus

\* Variant: a condition whose status is not True is read as "collection not enabled".
Filter_CondMustBeTrue(p, snapshot, mc) ==
    LET nsName == snapshot.Namespace
        cond   == FindStatusCondition(mc.Conditions, NamespaceCollectionSucceededCondType)
    IN  IF cond = NilCond \/ cond.Status # "True"
        THEN NilStatus
        ELSE IF mc.Namespaces.isNil
        THEN NewNonErrorStatus("ClusterUnschedulable", p.name, NoNamespaceInfoMsg)
        ELSE IF ~(nsName \in DOMAIN mc.Namespaces.entries)
        THEN NewNonErrorStatus("ClusterUnschedulable", p.name, NamespaceMissingMsg)
        ELSE NilStatus

\* Variant: the inventory is inspected before the condition is looked up.
Filter_InventoryFirst(p, snapshot, mc) ==
    LET nsName == snapshot.Namespace
        cond   == FindStatusCondition(mc.Conditions, NamespaceCollectionSucceededCondType)
    IN  IF mc.Namespaces.isNil
        THEN NewNonErrorStatus("ClusterUnschedulable", p.name, NoNamespaceInfoMsg)
        ELSE IF cond = NilCond
        THEN NilStatus
        ELSE IF ~(nsName \in DOMAIN mc.Namespaces.entries)
        THEN NewNonErrorStatus("ClusterUnschedulable", p.name, NamespaceMissingMsg)
        ELSE NilStatus

\* Variant: an empty inventory is treated like a missing one and lets the cluster pass.
Filter_EmptyInventoryPasses(p, snapshot, mc) ==
    LET nsName == snapshot.Namespace
        cond   == FindStatusCondition(mc.Conditions, NamespaceCollectionSucceededCondType)
    IN  IF cond = NilCond
        THEN NilStatus
        ELSE IF mc.Namespaces.isNil
        THEN NewNonErrorStatus("ClusterUnschedulable", p.name, NoNamespaceInfoMsg)
        ELSE IF DOMAIN mc.Namespaces.entries = {}
        THEN NilStatus
        ELSE IF ~(nsName \in DOMAIN mc.Namespaces.entries)
        THEN NewNonErrorStatus("ClusterUnschedulable", p.name, NamespaceMissingMsg)
        ELSE NilStatus

\* Variant: the lookup tests the mapped value instead of the key's presence.
Filter_RequiresWorkName(p, snapshot, mc) ==
    LET nsName == snapshot.Namespace
        cond   == FindStatusCondition(mc.Conditions, NamespaceCollectionSucceededCondType)
    IN  IF cond = NilCond
        THEN NilStatus
        ELSE IF mc.Namespaces.isNil
        THEN NewNonErrorStatus("ClusterUnschedulable", p.name, NoNamespaceInfoMsg)
        ELSE IF \/ ~(nsName \in DOMAIN mc.Namespaces.entries)
                \/ mc.Namespaces.entries[nsName] = ""
        THEN NewNonErrorStatus("ClusterUnschedulable", p.name, NamespaceMissingMsg)
        ELSE NilStatus

\* Variant: the result of the key lookup is read the wrong way round.
Filter_InvertedLookup(p, snapshot, mc) ==
    LET nsName == snapshot.Namespace
        cond   == FindStatusCondition(mc.Conditions, NamespaceCollectionSucceededCondType)
    IN  IF cond = NilCond
        THEN NilStatus
        ELSE IF mc.Namespaces.isNil
        THEN NewNonErrorStatus("ClusterUnschedulable", p.name, NoNamespaceInfoMsg)
        ELSE IF nsName \in DOMAIN mc.Namespaces.entries
        THEN NewNonErrorStatus("ClusterUnschedulable", p.name, NamespaceMissingMsg)
        ELSE NilStatus

Filter(p, snapshot, mc) ==
    LET nsName == snapshot.Namespace
        cond   == FindStatusCondition(mc.Conditions, NamespaceCollectionSucceededCondType)
    IN  IF cond = NilCond
        THEN NilStatus
        ELSE IF mc.Namespaces.isNil
        THEN NewNonErrorStatus("ClusterUnschedulable", p.name, NoNamespaceInfoMsg)
        ELSE IF ~(nsName \in DOMAIN mc.Namespaces.entries)
        THEN NewNonErrorStatus("ClusterUnschedulable", p.name, NamespaceMissingMsg)
        ELSE NilStatus

(***************************************************************************)
(* Update runs and the run-scoped metrics of the hub agent.                *)
(***************************************************************************)
StagedUpdateRunConditionInitialized == "Initialized"
StagedUpdateRunConditionProgressing == "Progressing"
StagedUpdateRunConditionSucceeded == "Succeeded"

RunCondTypes ==
    {StagedUpdateRunConditionInitialized, StagedUpdateRunConditionProgressing,
     StagedUpdateRunConditionSucceeded}
CondStatuses == {"True", "False"}

\* (namespace, name) of the update runs the controller reconciles.
RunKeys == { <<"ns-a", "run-1">>, <<"ns-a", "run-2">> }
\* Values of spec.state.
RunStates == {"Run"}

\* The reason the controller attaches to a condition of the given type and status.
ReasonFor(type, st) ==
    IF type = StagedUpdateRunConditionSucceeded
    THEN (IF st = "True" THEN "UpdateRunSucceeded" ELSE "UpdateRunFailed")
    ELSE IF type = StagedUpdateRunConditionProgressing
    THEN (IF st = "True" THEN "UpdateRunProgressing" ELSE "UpdateRunWaiting")
    ELSE (IF st = "True" THEN "UpdateRunInitializedSuccessfully" ELSE "UpdateRunInitializedFailed")

\* A freshly created update run: first generation, no status condition yet.
NewUpdateRun(key) ==
    [Namespace |-> key[1], Name |-> key[2], Generation |-> 1,
     State |-> CHOOSE st \in RunStates : TRUE, Conditions |-> <<>>]

\* meta.SetStatusCondition: replace the condition of the same type, or append.
SetStatusCondition(conditions, newCond) ==
    IF \E i \in 1..Len(conditions) : conditions[i].Type = newCond.Type
    THEN [i \in 1..Len(conditions) |->
            IF conditions[i].Type = newCond.Type THEN newCond ELSE conditions[i]]
    ELSE Append(conditions, newCond)

\* The label values of one series of FleetUpdateRunStatusLastTimestampSeconds.
StatusLabels(run, condType, cond) ==
    [namespace |-> run.Namespace, name |-> run.Name, state |-> run.State,
     condition |-> condType, status |-> cond.Status, reason |-> cond.Reason]

\* prometheus DeletePartialMatch on a vector kept as a set of label records.
DeletePartialMatchSet(series, ns, name) ==
    {l \in series : ~(l.namespace = ns /\ l.name = name)}

\* prometheus DeletePartialMatch on a vector kept as a function from label
\* records to the samples observed under them.
DeletePartialMatchVec(vec, ns, name) ==
    [l \in {k \in DOMAIN vec : ~(k.namespace = ns /\ k.name = name)} |-> vec[l]]

\* The three update-run metric vectors taken together.
RunMetrics(st, approval, stage) == [status |-> st, approval |-> approval, stage |-> stage]

\* Variant: the approval latency histogram is left out of the clean-up.
deleteUpdateRunMetrics_SkipsApproval(metrics, run) ==
    [status |-> DeletePartialMatchSet(metrics.status, run.Namespace, run.Name),
     stage |-> DeletePartialMatchVec(metrics.stage, run.Namespace, run.Name),
     approval |-> metrics.approval]

\* deleteUpdateRunMetrics: the three vectors after the call.
deleteUpdateRunMetrics(metrics, run) ==
    [status |-> DeletePartialMatchSet(metrics.status, run.Namespace, run.Name),
     stage |-> DeletePartialMatchVec(metrics.stage, run.Namespace, run.Name),
     approval |-> DeletePartialMatchVec(metrics.approval, run.Namespace, run.Name)]

\* Variant: no early return, a series is written for every current condition.
emitUpdateRunStatusMetric_NoReturn(run) ==
    LET generation == run.Generation
        current(type) ==
            LET cond == FindStatusCondition(run.Conditions, type)
            IN  IF cond # NilCond /\ cond.ObservedGeneration = generation
                THEN {StatusLabels(run, type, cond)}
                ELSE {}
    IN  current(StagedUpdateRunConditionSucceeded)
            \cup current(StagedUpdateRunConditionProgressing)
            \cup current(StagedUpdateRunConditionInitialized)

\* Variant: the Progressing condition is consulted before the Succeeded condition.
emitUpdateRunStatusMetric_ProgressingFirst(run) ==
    LET generation == run.Generation
        succeedCond == FindStatusCondition(run.Conditions, StagedUpdateRunConditionSucceeded)
        progressingCond == FindStatusCondition(run.Conditions, StagedUpdateRunConditionProgressing)
        initializedCond == FindStatusCondition(run.Conditions, StagedUpdateRunConditionInitialized)
    IN  IF progressingCond # NilCond /\ progressingCond.ObservedGeneration = generation
        THEN {StatusLabels(run, StagedUpdateRunConditionProgressing, progressingCond)}
        ELSE IF succeedCond # NilCond /\ succeedCond.ObservedGeneration = generation
        THEN {StatusLabels(run, StagedUpdateRunConditionSucceeded, succeedCond)}
        ELSE IF initializedCond # NilCond /\ initializedCond.ObservedGeneration = generation
        THEN {StatusLabels(run, StagedUpdateRunConditionInitialized, initializedCond)}
        ELSE {}

\* Variant: a condition is used whenever it is present, whatever its observedGeneration.
emitUpdateRunStatusMetric_IgnoresGeneration(run) ==
    LET succeedCond == FindStatusCondition(run.Conditions, StagedUpdateRunConditionSucceeded)
        progressingCond == FindStatusCondition(run.Conditions, StagedUpdateRunConditionProgressing)
        initializedCond == FindStatusCondition(run.Conditions, StagedUpdateRunConditionInitialized)
    IN  IF succeedCond # NilCond
        THEN {StatusLabels(run, StagedUpdateRunConditionSucceeded, succeedCond)}
        ELSE IF progressingCond # NilCond
        THEN {StatusLabels(run, StagedUpdateRunConditionProgressing, progressingCond)}
        ELSE IF initializedCond # NilCond
        THEN {StatusLabels(run, StagedUpdateRunConditionInitialized, initializedCond)}
        ELSE {}

\* emitUpdateRunStatusMetric: the series the call sets to the current time
\* (at most one); the empty set when the call only logs.
emitUpdateRunStatusMetric(run) ==
    LET generation == run.Generation
        succeedCond == FindStatusCondition(run.Conditions, StagedUpdateRunConditionSucceeded)
        progressingCond == FindStatusCondition(run.Conditions, StagedUpdateRunConditionProgressing)
        initializedCond == FindStatusCondition(run.Conditions, StagedUpdateRunConditionInitialized)
    IN  IF succeedCond # NilCond /\ succeedCond.ObservedGeneration = generation
        THEN {StatusLabels(run, StagedUpdateRunConditionSucceeded, succeedCond)}
        ELSE IF progressingCond # NilCond /\ progressingCond.ObservedGeneration = generation
        THEN {StatusLabels(run, StagedUpdateRunConditionProgressing, progressingCond)}
        ELSE IF initializedCond # NilCond /\ initializedCond.ObservedGeneration = generation
        THEN {StatusLabels(run, StagedUpdateRunConditionInitialized, initializedCond)}
        ELSE {}

(***************************************************************************)
(* Approval latency and stage duration histograms.                         *)
(***************************************************************************)
StageTaskConditionApprovalRequestCreated == "ApprovalRequestCreated"
StageTaskConditionApprovalRequestApproved == "ApprovalRequestApproved"

\* Values of the taskType label.
TaskTypes == {"beforeStage", "afterStage"}

\* A *metav1.Time: nil, or a point in time in seconds.
NilTime == [isNil |-> TRUE, Time |-> 0]
TimeAt(t) == [isNil |-> FALSE, Time |-> t]

\* A condition of a stage task, with the time of its last transition.
TaskCond(type, st, gen, t) ==
    [Type |-> type, Status |-> st, ObservedGeneration |-> gen, Reason |-> "",
     LastTransitionTime |-> t]

\* The conditions of the given type a stage task can carry: none, or one.
TaskCondOptions(type) ==
    { <<>> } \cup
    { <<TaskCond(type, st, gen, t)>> :
        st \in CondStatuses, gen \in 1..MaxGen, t \in 0..MaxTime }

StageTaskStatuses ==
    { [Conditions |-> created \o approved] :
        created \in TaskCondOptions(StageTaskConditionApprovalRequestCreated),
        approved \in TaskCondOptions(StageTaskConditionApprovalRequestApproved) }

\* condition.IsConditionStatusTrue: present, True and observed at this generation.
IsConditionStatusTrue(cond, latestGeneration) ==
    /\ cond.Type # NilCond.Type
    /\ cond.Status = "True"
    /\ cond.ObservedGeneration = latestGeneration

\* HistogramVec.WithLabelValues(...).Observe(v): append the sample to the
\* series of these labels, creating the series when it does not exist.
Observe(vec, labels, v) ==
    IF labels \in DOMAIN vec
    THEN [vec EXCEPT ![labels] = Append(@, v)]
    ELSE vec @@ (labels :> <<v>>)

\* All observations of a set of (labels, value) pairs, at most one here.
ObserveAll(vec, obs) ==
    IF obs = {} THEN vec
    ELSE LET o == CHOOSE x \in obs : TRUE IN Observe(vec, o.labels, o.value)

\* Variant: only the approved condition is tested before the latency is recorded.
recordApprovalRequestLatency_OnlyApproved(taskStatus, run, taskType) ==
    LET approvalCreatedCond ==
            FindStatusCondition(taskStatus.Conditions, StageTaskConditionApprovalRequestCreated)
        approvalApprovedCond ==
            FindStatusCondition(taskStatus.Conditions, StageTaskConditionApprovalRequestApproved)
    IN  IF ~IsConditionStatusTrue(approvalApprovedCond, run.Generation)
           \/ approvalCreatedCond.Type = NilCond.Type
        THEN {}
        ELSE { [labels |-> [namespace |-> run.Namespace, name |-> run.Name,
                            taskType |-> taskType],
                value |-> approvalApprovedCond.LastTransitionTime
                            - approvalCreatedCond.LastTransitionTime] }

\* recordApprovalRequestLatency: the observation the call makes on
\* FleetUpdateRunApprovalRequestLatencySeconds (none when it returns early).
recordApprovalRequestLatency(taskStatus, run, taskType) ==
    LET approvalCreatedCond ==
            FindStatusCondition(taskStatus.Conditions, StageTaskConditionApprovalRequestCreated)
        approvalApprovedCond ==
            FindStatusCondition(taskStatus.Conditions, StageTaskConditionApprovalRequestApproved)
    IN  IF \/ ~IsConditionStatusTrue(approvalCreatedCond, run.Generation)
           \/ ~IsConditionStatusTrue(approvalApprovedCond, run.Generation)
        THEN {}
        ELSE { [labels |-> [namespace |-> run.Namespace, name |-> run.Name,
                            taskType |-> taskType],
                value |-> approvalApprovedCond.LastTransitionTime
                            - approvalCreatedCond.LastTransitionTime] }

\* Variant: the start time is used without the nil test.
recordStageClusterUpdatingDuration_NoNilTest(stStatus, run, t) ==
    { [labels |-> [namespace |-> run.Namespace, name |-> run.Name],
       value |-> t - stStatus.StartTime.Time] }

\* recordStageClusterUpdatingDuration at wall-clock time t: the observation
\* the call makes on FleetUpdateRunStageClusterUpdatingDurationSeconds.
recordStageClusterUpdatingDuration(stStatus, run, t) ==
    IF stStatus.StartTime.isNil
    THEN {}
    ELSE { [labels |-> [namespace |-> run.Namespace, name |-> run.Name],
            value |-> t - stStatus.StartTime.Time] }

(***************************************************************************)
(* The options of the hub agent and their cross-option validation.         *)
(* Durations are in milliseconds.                                          *)
(***************************************************************************)
RateLimitOptions(baseDelay, maxDelay, qps, bucketSize) ==
    [RateLimiterBaseDelay |-> baseDelay, RateLimiterMaxDelay |-> maxDelay,
     RateLimiterQPS |-> qps, RateLimiterBucketSize |-> bucketSize]

\* The options the validation is tried on.
OptionsDomain ==
    [CtrlMgrOpts : [HubQPS : {-1, 250}, HubBurst : {100, 250, 1000}],
     WebhookOpts : [EnableWebhooks : BOOLEAN, ServiceName : {"", "test-webhook"},
                    UseCertManager : BOOLEAN, EnableWorkload : BOOLEAN],
     PlacementMgmtOpts :
        [AllowedPropagatingAPIs : {"", "apps/v1/Deployment"},
         SkippedPropagatingAPIs : {"", "fleet.azure.com;multicluster.x-k8s.io"},
         PlacementControllerWorkQueueRateLimiterOpts :
            { RateLimitOptions(b, m, q, 100) :
                b \in {5, 60000}, m \in {1000, 60000}, q \in {10, 100, 200} }]]

\* newTestOptions(nil): the options the tests start from.
newTestOptions ==
    [CtrlMgrOpts |-> [HubQPS |-> 250, HubBurst |-> 1000],
     WebhookOpts |-> [EnableWebhooks |-> FALSE, ServiceName |-> "test-webhook",
                      UseCertManager |-> FALSE, EnableWorkload |-> FALSE],
     PlacementMgmtOpts |->
        [AllowedPropagatingAPIs |-> "",
         SkippedPropagatingAPIs |-> "fleet.azure.com;multicluster.x-k8s.io",
         PlacementControllerWorkQueueRateLimiterOpts |->
            RateLimitOptions(5, 60000, 10, 100)]]

\* The offending value of a field.Error, with its Go type.
IntValue(n) == [kind |-> "int", int |-> n, str |-> "", bool |-> FALSE]
DurationValue(d) == [kind |-> "time.Duration", int |-> d, str |-> "", bool |-> FALSE]
StringValue(str) == [kind |-> "string", int |-> 0, str |-> str, bool |-> FALSE]
BoolValue(b) == [kind |-> "bool", int |-> 0, str |-> "", bool |-> b]

\* field.Invalid(path, value, detail)
Invalid(path, value) == [type |-> "FieldValueInvalid", field |-> path, value |-> value]

\* errs = append(errs, e) when the rule is violated
AppendIf(list, violated, e) == IF violated THEN Append(list, e) ELSE list

\* Variant: the rules after the first violated one are not evaluated.
Validate_FirstErrorOnly(o) ==
    LET rl == o.PlacementMgmtOpts.PlacementControllerWorkQueueRateLimiterOpts
        e1 == AppendIf(<<>>, o.CtrlMgrOpts.HubBurst < o.CtrlMgrOpts.HubQPS,
                Invalid("Options.HubBurst", IntValue(o.CtrlMgrOpts.HubBurst)))
        e2 == AppendIf(e1, e1 = <<>> /\ o.WebhookOpts.EnableWebhooks /\ o.WebhookOpts.ServiceName = "",
                Invalid("Options.WebhookServiceName", StringValue(o.WebhookOpts.ServiceName)))
        e3 == AppendIf(e2, e2 = <<>> /\ o.WebhookOpts.UseCertManager /\ ~o.WebhookOpts.EnableWorkload,
                Invalid("Options.UseCertManager", BoolValue(o.WebhookOpts.UseCertManager)))
        e4 == AppendIf(e3, /\ e3 = <<>>
                           /\ o.PlacementMgmtOpts.AllowedPropagatingAPIs # ""
                           /\ o.PlacementMgmtOpts.SkippedPropagatingAPIs # "",
                Invalid("Options.AllowedPropagatingAPIs",
                        StringValue(o.PlacementMgmtOpts.AllowedPropagatingAPIs)))
        e5 == AppendIf(e4, e4 = <<>> /\ rl.RateLimiterBaseDelay >= rl.RateLimiterMaxDelay,
                Invalid("Options.PlacementControllerWorkQueueRateLimiterOpts.RateLimiterBaseDelay",
                        DurationValue(rl.RateLimiterBaseDelay)))
        e6 == AppendIf(e5, e5 = <<>> /\ rl.RateLimiterQPS > rl.RateLimiterBucketSize,
                Invalid("Options.PlacementControllerWorkQueueRateLimiterOpts.RateLimiterQPS",
                        IntValue(rl.RateLimiterQPS)))
    IN  e6

\* Variant: equal base and max delays are let through.
Validate_EqualDelaysPass(o) ==
    LET rl == o.PlacementMgmtOpts.PlacementControllerWorkQueueRateLimiterOpts
        e1 == AppendIf(<<>>, o.CtrlMgrOpts.HubBurst < o.CtrlMgrOpts.HubQPS,
                Invalid("Options.HubBurst", IntValue(o.CtrlMgrOpts.HubBurst)))
        e2 == AppendIf(e1, o.WebhookOpts.EnableWebhooks /\ o.WebhookOpts.ServiceName = "",
                Invalid("Options.WebhookServiceName", StringValue(o.WebhookOpts.ServiceName)))
        e3 == AppendIf(e2, o.WebhookOpts.UseCertManager /\ ~o.WebhookOpts.EnableWorkload,
                Invalid("Options.UseCertManager", BoolValue(o.WebhookOpts.UseCertManager)))
        e4 == AppendIf(e3, /\ o.PlacementMgmtOpts.AllowedPropagatingAPIs # ""
                           /\ o.PlacementMgmtOpts.SkippedPropagatingAPIs # "",
                Invalid("Options.AllowedPropagatingAPIs",
                        StringValue(o.PlacementMgmtOpts.AllowedPropagatingAPIs)))
        e5 == AppendIf(e4, rl.RateLimiterBaseDelay > rl.RateLimiterMaxDelay,
                Invalid("Options.PlacementControllerWorkQueueRateLimiterOpts.RateLimiterBaseDelay",
                        DurationValue(rl.RateLimiterBaseDelay)))
        e6 == AppendIf(e5, rl.RateLimiterQPS > rl.RateLimiterBucketSize,
                Invalid("Options.PlacementControllerWorkQueueRateLimiterOpts.RateLimiterQPS",
                        IntValue(rl.RateLimiterQPS)))
    IN  e6

\* Options.Validate: the list of errors found, in the order of the checks.
Validate(o) ==
    LET rl == o.PlacementMgmtOpts.PlacementControllerWorkQueueRateLimiterOpts
        e1 == AppendIf(<<>>, o.CtrlMgrOpts.HubBurst < o.CtrlMgrOpts.HubQPS,
                Invalid("Options.HubBurst", IntValue(o.CtrlMgrOpts.HubBurst)))
        e2 == AppendIf(e1, o.WebhookOpts.EnableWebhooks /\ o.WebhookOpts.ServiceName = "",
                Invalid("Options.WebhookServiceName", StringValue(o.WebhookOpts.ServiceName)))
        e3 == AppendIf(e2, o.WebhookOpts.UseCertManager /\ ~o.WebhookOpts.EnableWorkload,
                Invalid("Options.UseCertManager", BoolValue(o.WebhookOpts.UseCertManager)))
        e4 == AppendIf(e3, /\ o.PlacementMgmtOpts.AllowedPropagatingAPIs # ""
                           /\ o.PlacementMgmtOpts.SkippedPropagatingAPIs # "",
                Invalid("Options.AllowedPropagatingAPIs",
                        StringValue(o.PlacementMgmtOpts.AllowedPropagatingAPIs)))
        e5 == AppendIf(e4, rl.RateLimiterBaseDelay >= rl.RateLimiterMaxDelay,
                Invalid("Options.PlacementControllerWorkQueueRateLimiterOpts.RateLimiterBaseDelay",
                        DurationValue(rl.RateLimiterBaseDelay)))
        e6 == AppendIf(e5, rl.RateLimiterQPS > rl.RateLimiterBucketSize,
                Invalid("Options.PlacementControllerWorkQueueRateLimiterOpts.RateLimiterQPS",
                        IntValue(rl.RateLimiterQPS)))
    IN  e6

(***************************************************************************)
(* The rate limiter of the placement controllers' work queue.  Durations   *)
(* and the clock are in milliseconds, tokens in thousandths of a token.    *)
(***************************************************************************)
\* The items of the work queue.
Items == {"item-1", "item-2"}

\* The options a rate limiter is built from: unset ones, and small ones.
LimiterOptions ==
    { RateLimitOptions(0, 0, 0, 0), RateLimitOptions(5, 20, 1, 1),
      RateLimitOptions(-1, 20, 2, 2) }

\* The steps the clock makes.
ClockSteps == {500}

Max(a, b) == IF a >= b THEN a ELSE b
Min(a, b) == IF a <= b THEN a ELSE b

\* DefaultControllerRateLimiter: unset options take their defaults; the
\* limiter is the maximum of an exponential per-item limiter that has seen no
\* failure and a token bucket that is full.
DefaultControllerRateLimiter(opts) ==
    LET baseDelay == IF opts.RateLimiterBaseDelay <= 0 THEN 5 ELSE opts.RateLimiterBaseDelay
        maxDelay == IF opts.RateLimiterMaxDelay <= 0 THEN 60000 ELSE opts.RateLimiterMaxDelay
        qps == IF opts.RateLimiterQPS <= 0 THEN 10 ELSE opts.RateLimiterQPS
        bucketSize == IF opts.RateLimiterBucketSize <= 0 THEN 100 ELSE opts.RateLimiterBucketSize
    IN  [baseDelay |-> baseDelay, maxDelay |-> maxDelay,
         failures |-> [i \in Items |-> 0],
         limit |-> qps, burst |-> bucketSize,
         tokens |-> bucketSize * 1000, last |-> 0]

\* Variant: the exponent is the number of failures that counts the present one.
ItemExponentialFailureWhen_ExponentOffByOne(lim, item) ==
    [lim |-> [lim EXCEPT !.failures[item] = @ + 1],
     delay |-> Min(lim.baseDelay * 2^(lim.failures[item] + 1), lim.maxDelay)]

\* TypedItemExponentialFailureRateLimiter.When: base delay doubled for each
\* earlier failure of the item, at most the max delay; the failure is counted.
ItemExponentialFailureWhen(lim, item) ==
    [lim |-> [lim EXCEPT !.failures[item] = @ + 1],
     delay |-> Min(lim.baseDelay * 2^lim.failures[item], lim.maxDelay)]

\* TypedBucketRateLimiter.When at time t: Limiter.Reserve().Delay().  The
\* bucket is refilled for the time since the last reservation, one token is
\* taken, and the delay is the time the bucket needs to make up a debt.
BucketWhen(lim, t) ==
    LET refilled == Min(lim.burst * 1000, lim.tokens + lim.limit * (t - lim.last))
        left == refilled - 1000
    IN  [lim |-> [lim EXCEPT !.tokens = left, !.last = t],
         delay |-> IF left < 0 THEN (-left) \div lim.limit ELSE 0]

\* TypedMaxOfRateLimiter.When: every limiter is asked, the longest delay wins.
When(lim, item, t) ==
    LET exp == ItemExponentialFailureWhen(lim, item)
        bucket == BucketWhen(exp.lim, t)
    IN  [lim |-> bucket.lim, delay |-> Max(exp.delay, bucket.delay)]

\* TypedMaxOfRateLimiter.Forget: the failures of the item are forgotten; the
\* token bucket keeps no state per item.
Forget(lim, item) == [lim EXCEPT !.failures[item] = 0]

\* TypedMaxOfRateLimiter.NumRequeues
NumRequeues(lim, item) == lim.failures[item]

(***************************************************************************)
(* The staged update run: stages in declared order, each holding one task  *)
(* per target cluster.                                                     *)
(***************************************************************************)
Stages == 1..MaxStages

\* The clusters every stage targets.
StageClusters == {"member-1", "member-2"}

\* A task is named by its stage and its cluster.
StageTasks == Stages \X StageClusters

\* The states of a task: waiting, behind its approval gate, dispatched, and
\* the outcomes.
TaskStates ==
    {"pending", "ApprovalRequestCreated", "ApprovalRequestApproved", "updating",
     "succeeded", "failed", "toleratedFailure", "skipped"}

\* The outcomes that let the stage complete.
TerminalStates == {"succeeded", "toleratedFailure", "skipped"}

\* The states of a task that has begun dispatch.
DispatchedStates == {"updating", "succeeded", "failed", "toleratedFailure"}

\* Variant: a stage counts as complete as soon as one of its tasks is terminal.
StageComplete_AnyTask(taskStates, n) ==
    \E c \in StageClusters : taskStates[<<n, c>>] \in TerminalStates

\* A stage is complete once every task of it has reached a terminal outcome.
StageComplete(taskStates, n) ==
    \A c \in StageClusters : taskStates[<<n, c>>] \in TerminalStates

\* A task may be dispatched when it is past its approval gate, if its stage
\* has one.
ReadyForDispatch(taskStates, required, t) ==
    IF required[t[1]]
    THEN taskStates[t] = "ApprovalRequestApproved"
    ELSE taskStates[t] = "pending"

(***************************************************************************)
(* The command-line flags of the hub agent whose values are validated when *)
(* they are set.  Durations are in milliseconds; a nil error is "".        *)
(***************************************************************************)
\* time.ParseDuration on the strings that are tried.
DurationTable ==
    ("0" :> 0) @@ ("0s" :> 0) @@ ("-1s" :> -1000) @@ ("1ms" :> 1) @@ ("200ms" :> 200) @@
    ("201ms" :> 201) @@ ("999ms" :> 999) @@ ("1s" :> 1000) @@ ("29s" :> 29000) @@
    ("30s" :> 30000) @@ ("61s" :> 61000) @@ ("1m" :> 60000) @@ ("5m" :> 300000) @@
    ("5m1s" :> 301000) @@ ("59m" :> 3540000) @@ ("61m" :> 3660000) @@
    ("1h" :> 3600000) @@ ("12h" :> 43200000) @@ ("13h" :> 46800000)

ParseDuration(str) ==
    IF str \in DOMAIN DurationTable
    THEN [ok |-> TRUE, value |-> DurationTable[str]]
    ELSE [ok |-> FALSE, value |-> 0]

\* strconv.Atoi on the strings that are tried.
IntTable ==
    ("-1" :> -1) @@ ("0" :> 0) @@ ("1" :> 1) @@ ("9" :> 9) @@ ("10" :> 10) @@ ("29" :> 29) @@
    ("30" :> 30) @@ ("100" :> 100) @@ ("101" :> 101) @@ ("200" :> 200) @@ ("201" :> 201) @@
    ("1000" :> 1000) @@ ("1001" :> 1001) @@ ("10000" :> 10000) @@ ("10001" :> 10001) @@
    ("20000" :> 20000) @@ ("20001" :> 20001)

Atoi(str) ==
    IF str \in DOMAIN IntTable
    THEN [ok |-> TRUE, value |-> IntTable[str]]
    ELSE [ok |-> FALSE, value |-> 0]

\* strconv.ParseFloat on the strings that are tried, all of them whole numbers.
ParseFloat(str) ==
    IF str \in DOMAIN IntTable
    THEN [ok |-> TRUE, value |-> IntTable[str]]
    ELSE IF str = "10.0" THEN [ok |-> TRUE, value |-> 10]
    ELSE [ok |-> FALSE, value |-> 0]

\* strconv.ParseBool
ParseBool(str) ==
    IF str \in {"1", "t", "T", "TRUE", "true", "True"} THEN [ok |-> TRUE, value |-> TRUE]
    ELSE IF str \in {"0", "f", "F", "FALSE", "false", "False"} THEN [ok |-> TRUE, value |-> FALSE]
    ELSE [ok |-> FALSE, value |-> FALSE]

\* The outcome of a Set call: the value stored afterwards and the error.
SetResult(value, err) == [value |-> value, err |-> err]

\* A Set of a duration flag that accepts the values of [lo, hi].
DurationRangeSet(v, str, lo, hi, parseErr, rangeErr) ==
    LET duration == ParseDuration(str)
    IN  IF ~duration.ok THEN SetResult(v, parseErr)
        ELSE IF duration.value < lo \/ duration.value > hi THEN SetResult(v, rangeErr)
        ELSE SetResult(duration.value, "")

\* A Set of an integer flag that accepts the values of [lo, hi].
IntRangeSet(v, str, lo, hi, parseErr, rangeErr) ==
    LET n == Atoi(str)
    IN  IF ~n.ok THEN SetResult(v, parseErr)
        ELSE IF n.value < lo \/ n.value > hi THEN SetResult(v, rangeErr)
        ELSE SetResult(n.value, "")

RateLimiterBaseDelaySet(v, str) ==
    DurationRangeSet(v, str, 1, 200, "failed to parse time duration",
                     "the base delay must be a value between [1ms, 200ms]")

RateLimiterMaxDelaySet(v, str) ==
    DurationRangeSet(v, str, 1000, 5 * 60000, "failed to parse time duration",
                     "the max delay must be a value between [1s, 5m]")

RateLimiterQPSSet(v, str) ==
    IntRangeSet(v, str, 1, 1000, "failed to parse integer",
                "the QPS must be a positive integer in the range [1, 1000]")

RateLimiterBucketSizeSet(v, str) ==
    IntRangeSet(v, str, 1, 10000, "failed to parse integer",
                "the bucket size must be a positive integer in the range [1, 10000]")

\* HubQPSValueWithValidation.Set: a negative value disables the throttling.
HubQPSSet(v, str) ==
    LET qps == ParseFloat(str)
    IN  IF ~qps.ok THEN SetResult(v, "failed to parse float64 value")
        ELSE IF qps.value < 0 THEN SetResult(-1, "")
        ELSE IF qps.value < 10 \/ qps.value > 10000
        THEN SetResult(v, "QPS limit is set to an invalid value")
        ELSE SetResult(qps.value, "")

HubBurstSet(v, str) ==
    IntRangeSet(v, str, 10, 20000, "failed to parse int value",
                "burst limit is set to an invalid value")

ResyncPeriodSet(v, str) ==
    DurationRangeSet(v, str, 3600000, 12 * 3600000, "failed to parse duration value",
                     "resync period is set to an invalid value")

\* Variant: the duration is stored before its range is tested.
ClusterUnhealthyThresholdSet_StoresFirst(v, str) ==
    LET duration == ParseDuration(str)
    IN  IF ~duration.ok THEN SetResult(v, "failed to parse duration")
        ELSE IF duration.value < 30000 \/ duration.value > 3600000
        THEN SetResult(duration.value, "duration must be in the range [30s, 1h]")
        ELSE SetResult(duration.value, "")

ClusterUnhealthyThresholdSet(v, str) ==
    DurationRangeSet(v, str, 30000, 3600000, "failed to parse duration",
                     "duration must be in the range [30s, 1h]")

ForceDeleteWaitTimeSet(v, str) ==
    DurationRangeSet(v, str, 30000, 3600000, "failed to parse duration",
                     "duration must be in the range [30s, 1h]")

\* Variant: the given duration is parsed and stored.
WorkPendingGracePeriodSet_Parses(v, str) ==
    LET duration == ParseDuration(str)
    IN  IF ~duration.ok THEN SetResult(v, "failed to parse duration")
        ELSE SetResult(duration.value, "")

\* WorkPendingGracePeriodValueWithValidation.Set: the input is ignored.
WorkPendingGracePeriodSet(v, str) == SetResult(15 * 1000, "")

ConcurrentResourceChangeSyncsSet(v, str) ==
    IntRangeSet(v, str, 1, 100, "failed to parse int value",
                "number of concurrent resource change syncs must be in the range [1, 100]")

\* Variant: the upper end of the range is not tested.
MaxFleetSizeSet_NoUpperBound(v, str) ==
    LET n == Atoi(str)
    IN  IF ~n.ok THEN SetResult(v, "failed to parse int value")
        ELSE IF n.value < 30
        THEN SetResult(v, "number of max fleet size must be in the range [30, 200]")
        ELSE SetResult(n.value, "")

MaxFleetSizeSet(v, str) ==
    IntRangeSet(v, str, 30, 200, "failed to parse int value",
                "number of max fleet size must be in the range [30, 200]")

MaxConcurrentClusterPlacementSet(v, str) ==
    IntRangeSet(v, str, 10, 200, "failed to parse int value",
                "number of max concurrent cluster placements must be in the range [10, 200]")

ResourceSnapshotCreationMinimumIntervalSet(v, str) ==
    DurationRangeSet(v, str, 0, 5 * 60000, "failed to parse duration",
                     "duration must be in the range [0s, 5m]")

ResourceChangesCollectionDurationSet(v, str) ==
    DurationRangeSet(v, str, 0, 60000, "failed to parse duration",
                     "duration must be in the range [0s, 1m]")

\* EnableV1Beta1APIsValueWithValidation.Set: only true is accepted.
EnableV1Beta1APIsSet(v, str) ==
    LET enabled == ParseBool(str)
    IN  IF ~enabled.ok THEN SetResult(v, "failed to parse bool value")
        ELSE IF ~enabled.value
        THEN SetResult(v, "the KubeFleet v1beta1 APIs are the storage version and must be enabled")
        ELSE SetResult(enabled.value, "")

\* The flags with a validating value type.
FlagNames ==
    {"rate-limiter-base-delay", "rate-limiter-max-delay", "rate-limiter-qps",
     "rate-limiter-bucket-size", "hub-api-qps", "hub-api-burst", "resync-period",
     "cluster-unhealthy-threshold", "force-delete-wait-time",
     "work-pending-grace-period", "concurrent-resource-change-syncs", "max-fleet-size",
     "max-concurrent-cluster-placement", "resource-snapshot-creation-minimum-interval",
     "resource-changes-collection-duration", "enable-v1beta1-apis"}

\* flag.Value.Set of the flag of this name, on the value it holds.
FlagSet(name, v, str) ==
    CASE name = "rate-limiter-base-delay" -> RateLimiterBaseDelaySet(v, str)
      [] name = "rate-limiter-max-delay" -> RateLimiterMaxDelaySet(v, str)
      [] name = "rate-limiter-qps" -> RateLimiterQPSSet(v, str)
      [] name = "rate-limiter-bucket-size" -> RateLimiterBucketSizeSet(v, str)
      [] name = "hub-api-qps" -> HubQPSSet(v, str)
      [] name = "hub-api-burst" -> HubBurstSet(v, str)
      [] name = "resync-period" -> ResyncPeriodSet(v, str)
      [] name = "cluster-unhealthy-threshold" -> ClusterUnhealthyThresholdSet(v, str)
      [] name = "force-delete-wait-time" -> ForceDeleteWaitTimeSet(v, str)
      [] name = "work-pending-grace-period" -> WorkPendingGracePeriodSet(v, str)
      [] name = "concurrent-resource-change-syncs" -> ConcurrentResourceChangeSyncsSet(v, str)
      [] name = "max-fleet-size" -> MaxFleetSizeSet(v, str)
      [] name = "max-concurrent-cluster-placement" -> MaxConcurrentClusterPlacementSet(v, str)
      [] name = "resource-snapshot-creation-minimum-interval" ->
            ResourceSnapshotCreationMinimumIntervalSet(v, str)
      [] name = "resource-changes-collection-duration" ->
            ResourceChangesCollectionDurationSet(v, str)
      [] name = "enable-v1beta1-apis" -> EnableV1Beta1APIsSet(v, str)

\* AddFlags of the option groups: every flag holds its default.
AddFlags ==
    ("rate-limiter-base-delay" :> 5) @@ ("rate-limiter-max-delay" :> 60 * 1000) @@
    ("rate-limiter-qps" :> 10) @@ ("rate-limiter-bucket-size" :> 100) @@
    ("hub-api-qps" :> 250) @@ ("hub-api-burst" :> 1000) @@
    ("resync-period" :> 6 * 3600000) @@
    ("cluster-unhealthy-threshold" :> 60 * 1000) @@
    ("force-delete-wait-time" :> 15 * 60000) @@
    ("work-pending-grace-period" :> 15 * 1000) @@
    ("concurrent-resource-change-syncs" :> 20) @@ ("max-fleet-size" :> 100) @@
    ("max-concurrent-cluster-placement" :> 100) @@
    ("resource-snapshot-creation-minimum-interval" :> 30 * 1000) @@
    ("resource-changes-collection-duration" :> 15 * 1000) @@
    ("enable-v1beta1-apis" :> TRUE)

\* The strings each flag is set to: unparseable text, and the values at and
\* next to both ends of its range.
FlagInputs ==
    ("rate-limiter-base-delay" :> {"fast", "0", "1ms", "200ms", "201ms"}) @@
    ("rate-limiter-max-delay" :> {"slow", "999ms", "1s", "5m", "5m1s"}) @@
    ("rate-limiter-qps" :> {"1s", "0", "1", "1000", "1001"}) @@
    ("rate-limiter-bucket-size" :> {"many", "0", "1", "10000", "10001"}) @@
    ("hub-api-qps" :> {"fast", "-1", "0", "9", "10", "10000", "10001"}) @@
    ("hub-api-burst" :> {"many", "9", "10", "20000", "20001"}) @@
    ("resync-period" :> {"1", "59m", "1h", "12h", "13h"}) @@
    ("cluster-unhealthy-threshold" :> {"soon", "29s", "30s", "1h", "61m"}) @@
    ("force-delete-wait-time" :> {"soon", "29s", "30s", "1h", "61m"}) @@
    ("work-pending-grace-period" :> {"soon", "0", "1h"}) @@
    ("concurrent-resource-change-syncs" :> {"many", "0", "1", "100", "101"}) @@
    ("max-fleet-size" :> {"many", "29", "30", "200", "201"}) @@
    ("max-concurrent-cluster-placement" :> {"many", "9", "10", "200", "201"}) @@
    ("resource-snapshot-creation-minimum-interval" :> {"soon", "-1s", "0", "5m", "5m1s"}) @@
    ("resource-changes-collection-duration" :> {"soon", "-1s", "0s", "1m", "61s"}) @@
    ("enable-v1beta1-apis" :> {"maybe", "true", "false", "1"})

(***************************************************************************)
(* The scheduling cycle of one placement over the fleet.                   *)
(***************************************************************************)
ClusterNames == {"member-1", "member-2"}
TargetNamespace == "test-namespace"

\* Plugins in registration order.
Plugins == <<"ClusterEligibility", "NamespaceAffinity">>

\* The namespace inventories the fleet's clusters report.
Inventories ==
    { NilMap,
      MakeMap(<<>>),
      MakeMap([n \in {"other-ns"} |-> "w1"]),
      MakeMap([n \in {TargetNamespace, "other-ns"} |-> "w1"]) }

\* The namespace-collection part of a cluster's condition list.
CollectionConditions ==
    { <<>> } \cup { <<Cond(NamespaceCollectionSucceededCondType, s)>> : s \in {"True", "False"} }

FleetClusters ==
    [Healthy : BOOLEAN, Conditions : CollectionConditions, Namespaces : Inventories]

\* meta.RemoveStatusCondition: drop every condition of the given type.
RemoveStatusCondition(conditions, conditionType) ==
    SelectSeq(conditions, LAMBDA c : c.Type # conditionType)

\* A status that lets the cluster pass.
IsSuccess(st) == st = NilStatus \/ st.code = "Success"

\* PreFilter of a registered plugin; a plugin without the extension point passes.
PluginPreFilter(name, snapshot) ==
    IF name = "NamespaceAffinity"
    THEN PreFilter(New(name), snapshot)
    ELSE NilStatus

\* Filter of a registered plugin.
PluginFilter(name, snapshot, mc) ==
    IF name = "NamespaceAffinity"
    THEN Filter(New(name), snapshot, mc)
    ELSE IF mc.Healthy
    THEN NilStatus
    ELSE NewNonErrorStatus("ClusterUnschedulable", name, "cluster is not eligible")

\* The plugins that opted out of Filter for this cycle.
SkippedPlugins(snapshot) ==
    {Plugins[i] : i \in {j \in 1..Len(Plugins) :
                            PluginPreFilter(Plugins[j], snapshot).code = "Skip"}}

\* A PreFilter status other than pass or Skip aborts the cycle.
PreFilterAborts(snapshot) ==
    \E i \in 1..Len(Plugins) :
        LET st == PluginPreFilter(Plugins[i], snapshot)
        IN  ~IsSuccess(st) /\ st.code # "Skip"

\* The filter chain on one cluster: plugins in registration order, skipped
\* ones left out, stopping at the first rejection, whose status is returned.
RECURSIVE RunFilterPlugins(_, _, _, _)
RunFilterPlugins(pls, skipped, snapshot, mc) ==
    IF pls = <<>>
    THEN NilStatus
    ELSE IF Head(pls) \in skipped
    THEN RunFilterPlugins(Tail(pls), skipped, snapshot, mc)
    ELSE LET st == PluginFilter(Head(pls), snapshot, mc)
         IN  IF ~IsSuccess(st)
             THEN st
             ELSE RunFilterPlugins(Tail(pls), skipped, snapshot, mc)

\* The plugins whose Filter the chain invokes on one cluster.
RECURSIVE InvokedFilters(_, _, _, _)
InvokedFilters(pls, skipped, snapshot, mc) ==
    IF pls = <<>>
    THEN {}
    ELSE IF Head(pls) \in skipped
    THEN InvokedFilters(Tail(pls), skipped, snapshot, mc)
    ELSE IF ~IsSuccess(PluginFilter(Head(pls), snapshot, mc))
    THEN {Head(pls)}
    ELSE {Head(pls)} \cup InvokedFilters(Tail(pls), skipped, snapshot, mc)

\* Variant: the finalizer may go while bindings are left.
CanRemoveFinalizer_Always(placementBindings) == TRUE

\* The cleanup finalizer may be removed once no binding of the placement is left.
CanRemoveFinalizer(placementBindings) == placementBindings = {}

\* No scheduling cycle has run yet.
NoCycle ==
    [done |-> FALSE, skipped |-> {}, filterCalls |-> {},
     reasons |-> [c \in ClusterNames |-> NilStatus]]

(***************************************************************************)
(* State.                                                                  *)
(***************************************************************************)
VARIABLES
    \* one plugin call: the plugin, its arguments, the extension point and the result
    plugin, ps, cluster, called, status,
    \* the update run under reconciliation and the three run-scoped metric vectors
    updateRun, statusSeries, approvalSeries, stageSeries,
    \* the last metric operation and the series the last emit call wrote
    metricOp, emitted,
    \* the fleet, the placement's policy snapshot and its bindings, the work
    \* queue entry of the placement, and the record of the last scheduling cycle
    clusters, policySnapshot, bindings, queued, cycle,
    \* clusters a cycle rejected for lacking the target namespace, and the
    \* number of member-cluster status updates made so far
    rejected, changes,
    \* whether the placement carries the scheduler cleanup finalizer, and
    \* whether its deletion has been requested
    finalizer, deleting,
    \* the status of the stage task and of the stage under observation, and
    \* the wall clock in seconds
    stageTaskStatus, stageStatus, now,
    \* the runs whose deletion has been handled
    deletedRuns,
    \* the options of the hub agent, the error list Validate returned for
    \* them, and whether it has been called
    options, errs, validated,
    \* the rate limiter of the placement controllers' work queue, the clock
    \* it reads (in milliseconds), and its last call: the operation, the item,
    \* the delay returned, and the numbers of calls and clock steps so far
    rateLimiter, wqClock, limOp, limItem, delay, whenCalls, ticks,
    \* the staged update run: its top-level state, whether each stage needs an
    \* approval, the stage in progress and the state of every task
    runState, approvalRequired, currentStage, tasks,
    \* the value every validated flag holds, and the last Set call: the flag,
    \* the string it was given, the error it returned ("" for nil) and the
    \* number of calls so far
    flagValues, lastFlag, lastInput, setErr, setCalls

pluginVars == <<plugin, ps, cluster, called, status>>
metricVars == <<updateRun, statusSeries, approvalSeries, stageSeries, metricOp, emitted>>
schedVars == <<clusters, policySnapshot, bindings, queued, cycle, rejected, changes,
               finalizer, deleting>>
stageVars == <<stageTaskStatus, stageStatus, now>>
vars == <<plugin, ps, cluster, called, status,
          updateRun, statusSeries, approvalSeries, stageSeries, metricOp, emitted,
          clusters, policySnapshot, bindings, queued, cycle, rejected, changes,
          finalizer, deleting,
          stageTaskStatus, stageStatus, now, deletedRuns,
          options, errs, validated,
          rateLimiter, wqClock, limOp, limItem, delay, whenCalls, ticks,
          runState, approvalRequired, currentStage, tasks,
          flagValues, lastFlag, lastInput, setErr, setCalls>>

\* What the actions of each part leave alone.
optionVars == <<options, errs, validated>>
flagVars == <<flagValues, lastFlag, lastInput, setErr, setCalls>>
orchVars == <<runState, approvalRequired, currentStage, tasks>>
limiterVars == <<rateLimiter, wqClock, limOp, limItem, delay, whenCalls, ticks>>
pluginFrame == <<metricVars, schedVars, stageVars, deletedRuns, optionVars, limiterVars, orchVars,
                flagVars>>
metricFrame == <<pluginVars, schedVars, stageVars, deletedRuns, optionVars, limiterVars, orchVars,
                flagVars>>
schedFrame == <<pluginVars, metricVars, stageVars, deletedRuns, optionVars, limiterVars, orchVars,
                flagVars>>
recordFrame == <<pluginVars, schedVars, deletedRuns, optionVars, limiterVars, orchVars,
                flagVars>>
deleteFrame == <<pluginVars, schedVars, stageVars, emitted, optionVars, limiterVars, orchVars,
                flagVars>>
optionFrame == <<pluginVars, metricVars, schedVars, stageVars, deletedRuns, limiterVars, orchVars,
                flagVars>>
limiterFrame == <<pluginVars, metricVars, schedVars, stageVars, deletedRuns, optionVars, orchVars,
                flagVars>>
orchFrame == <<pluginVars, metricVars, schedVars, stageVars, deletedRuns, optionVars, limiterVars,
              flagVars>>
flagFrame == <<pluginVars, metricVars, schedVars, stageVars, deletedRuns, optionVars, limiterVars,
              orchVars>>

\* The flags have been added and none has been set.
FlagsIdle ==
    /\ flagValues = AddFlags
    /\ lastFlag = "none"
    /\ lastInput = ""
    /\ setErr = ""
    /\ setCalls = 0

\* The update run has just been created.
OrchIdle ==
    /\ runState = "Created"
    /\ approvalRequired = [n \in Stages |-> FALSE]
    /\ currentStage = 0
    /\ tasks = [t \in StageTasks |-> "pending"]

\* The rate limiter is the one of the tests' options and has not been used.
LimiterIdle ==
    /\ rateLimiter = DefaultControllerRateLimiter(
            newTestOptions.PlacementMgmtOpts.PlacementControllerWorkQueueRateLimiterOpts)
    /\ wqClock = 0
    /\ limOp = "none"
    /\ limItem = CHOOSE i \in Items : TRUE
    /\ delay = 0
    /\ whenCalls = 0
    /\ ticks = 0

\* The options are the ones of the tests and have not been validated.
OptionsIdle ==
    /\ options = newTestOptions
    /\ errs = <<>>
    /\ validated = FALSE
    /\ LimiterIdle
    /\ OrchIdle
    /\ FlagsIdle

\* No stage is under observation.
StageIdle ==
    /\ stageTaskStatus = [Conditions |-> <<>>]
    /\ stageStatus = [StartTime |-> NilTime]
    /\ now = 0
    /\ deletedRuns = {}
    /\ OptionsIdle

\* The scheduler with no placement to schedule.
SchedIdle ==
    /\ clusters = [c \in ClusterNames |->
                     [Healthy |-> TRUE, Conditions |-> <<>>, Namespaces |-> NilMap]]
    /\ policySnapshot = [Namespace |-> ""]
    /\ bindings = {}
    /\ queued = FALSE
    /\ cycle = NoCycle
    /\ rejected = {}
    /\ changes = 0
    /\ finalizer = FALSE
    /\ deleting = FALSE

\* The plugin harness at rest (no call made).
PluginIdle ==
    /\ plugin = New("NamespaceAffinity")
    /\ ps = [Namespace |-> ""]
    /\ cluster = [Conditions |-> <<>>, Namespaces |-> NilMap]
    /\ called = "none"
    /\ status = NilStatus

\* The metric registry right after init(): every vector is empty.
MetricsIdle ==
    /\ updateRun = NewUpdateRun(CHOOSE k \in RunKeys : TRUE)
    /\ statusSeries = {}
    /\ approvalSeries = <<>>
    /\ stageSeries = <<>>
    /\ metricOp = "none"
    /\ emitted = {}

(***************************************************************************)
(* Specification of single plugin calls.                                   *)
(***************************************************************************)
PluginInit ==
    /\ MetricsIdle
    /\ SchedIdle
    /\ StageIdle
    /\ plugin \in {New(n) : n \in PluginNames}
    /\ ps \in PolicySnapshots
    /\ cluster \in MemberClusters
    /\ called = "none"
    /\ status = NilStatus

CallPreFilter ==
    /\ called = "none"
    /\ status' = PreFilter(plugin, ps)
    /\ called' = "PreFilter"
    /\ UNCHANGED <<plugin, ps, cluster>>
    /\ UNCHANGED pluginFrame

CallFilter ==
    /\ called = "none"
    /\ status' = Filter(plugin, ps, cluster)
    /\ called' = "Filter"
    /\ UNCHANGED <<plugin, ps, cluster>>
    /\ UNCHANGED pluginFrame

PluginNext == CallPreFilter \/ CallFilter

SpecPlugin == PluginInit /\ [][PluginNext]_vars

(***************************************************************************)
(* Properties of single plugin calls.                                      *)
(***************************************************************************)
\* The cluster carries the namespace-collection condition, whatever its status.
HasCollectionCond(mc) ==
    \E i \in 1..Len(mc.Conditions) :
        mc.Conditions[i].Type = NamespaceCollectionSucceededCondType

\* The same cluster with the boolean of its namespace-collection condition inverted.
FlipCollectionStatus(mc) ==
    [mc EXCEPT !.Conditions =
        [i \in 1..Len(mc.Conditions) |->
            IF mc.Conditions[i].Type = NamespaceCollectionSucceededCondType
            THEN [mc.Conditions[i] EXCEPT !.Status = IF @ = "True" THEN "False" ELSE "True"]
            ELSE mc.Conditions[i]]]

Rejection(msg) ==
    [code |-> "ClusterUnschedulable", pluginName |-> plugin.name, message |-> msg]

\* C1: for a namespace-scoped snapshot, Filter rejects every cluster that
\* carries the namespace-collection condition and has a nil inventory, with
\* the reason "cluster has no namespace information available"; and a cluster
\* that differs only in the condition's boolean gets the same Filter result.
C1_NilInventoryRejected ==
    (called = "Filter" /\ HasCollectionCond(cluster)) =>
        /\ (ps.Namespace # "" /\ cluster.Namespaces.isNil)
              => status = Rejection(NoNamespaceInfoMsg)
        /\ Filter(plugin, ps, FlipCollectionStatus(cluster)) = status

C1_Witness ==
    /\ called = "Filter"
    /\ ps.Namespace = "test-namespace"
    /\ cluster.Conditions = <<Cond(NamespaceCollectionSucceededCondType, "False")>>
    /\ cluster.Namespaces.isNil
    /\ status.code = "ClusterUnschedulable"

\* C2: Filter passes (nil status) every cluster that does not carry the
\* namespace-collection condition, whatever its inventory is.
C2_NoConditionPasses ==
    (called = "Filter" /\ ~HasCollectionCond(cluster)) => status = NilStatus

C2_Witness ==
    /\ called = "Filter"
    /\ ~HasCollectionCond(cluster)
    /\ cluster.Namespaces.isNil
    /\ ps.Namespace = "test-namespace"
    /\ status = NilStatus

\* C3: Filter rejects, with the reason "target namespace does not exist on
\* cluster", every cluster that carries the condition, has a non-nil
\* inventory and has no key equal to the snapshot's namespace.
C3_MissingNamespaceRejected ==
    ( /\ called = "Filter"
      /\ HasCollectionCond(cluster)
      /\ ~cluster.Namespaces.isNil
      /\ ps.Namespace \notin DOMAIN cluster.Namespaces.entries )
    => status = Rejection(NamespaceMissingMsg)

C3_Witness ==
    /\ called = "Filter"
    /\ HasCollectionCond(cluster)
    /\ ~cluster.Namespaces.isNil
    /\ DOMAIN cluster.Namespaces.entries = {}
    /\ ps.Namespace = "test-namespace"
    /\ status.message = NamespaceMissingMsg

\* C4: Filter passes every cluster that carries the condition (True or
\* False) and whose inventory has the snapshot's namespace as a key, whatever
\* value is mapped to it.
C4_PresentNamespacePasses ==
    ( /\ called = "Filter"
      /\ HasCollectionCond(cluster)
      /\ MapHasKey(cluster.Namespaces, ps.Namespace) )
    => status = NilStatus

C4_Witness ==
    /\ called = "Filter"
    /\ cluster.Conditions = <<Cond(NamespaceCollectionSucceededCondType, "False")>>
    /\ MapHasKey(cluster.Namespaces, ps.Namespace)
    /\ cluster.Namespaces.entries[ps.Namespace] = ""
    /\ status = NilStatus

\* C5: PreFilter returns a Skip status carrying the plugin's configured name
\* exactly when the snapshot's namespace is empty, and nil otherwise.
C5_PreFilterSkipsClusterScoped ==
    called = "PreFilter" =>
        IF ps.Namespace = ""
        THEN status.code = "Skip" /\ status.pluginName = plugin.name
        ELSE status = NilStatus

C5_Witness ==
    /\ called = "PreFilter"
    /\ ps.Namespace = ""
    /\ plugin.name = "custom-name"
    /\ status.code = "Skip"

\* C25: Filter only returns a pass (nil) or a ClusterUnschedulable status
\* that carries the plugin's configured name, the default or the one given
\* with WithName; it never returns Skip or InternalError, a nil inventory and
\* an absent condition included; and the call changes neither the cluster
\* nor the snapshot.
C25_FilterPassesOrRejectsOnly ==
    /\ [](called = "Filter" =>
            \/ status = NilStatus
            \/ /\ status.code = "ClusterUnschedulable"
               /\ status.pluginName = plugin.name
               /\ plugin.name \in PluginNames)
    /\ [][called' = "Filter" => (cluster' = cluster /\ ps' = ps /\ plugin' = plugin)]_vars

\* A plugin built with WithName rejected a cluster that reports the
\* condition and has a nil inventory.
C25_Witness ==
    /\ called = "Filter"
    /\ plugin.name = "custom-name"
    /\ HasCollectionCond(cluster)
    /\ cluster.Namespaces.isNil
    /\ status.pluginName = "custom-name"

(***************************************************************************)
(* Specification of the update-run metric emitters.                        *)
(***************************************************************************)
MetricsInit ==
    /\ PluginIdle
    /\ SchedIdle
    /\ StageIdle
    /\ updateRun \in {NewUpdateRun(k) : k \in RunKeys}
    /\ statusSeries = {}
    /\ approvalSeries = <<>>
    /\ stageSeries = <<>>
    /\ metricOp = "none"
    /\ emitted = {}

\* The controller starts to reconcile another, newly created update run.
CreateUpdateRun ==
    /\ \E k \in RunKeys :
          /\ k # <<updateRun.Namespace, updateRun.Name>>
          /\ updateRun' = NewUpdateRun(k)
    /\ metricOp' = "none"
    /\ emitted' = {}
    /\ UNCHANGED <<statusSeries, approvalSeries, stageSeries>>
    /\ UNCHANGED metricFrame

\* The spec of the update run is changed: its generation moves on.
UpdateRunSpec ==
    /\ updateRun.Generation < MaxGen
    /\ \E st \in RunStates :
          updateRun' = [updateRun EXCEPT !.Generation = @ + 1, !.State = st]
    /\ metricOp' = "none"
    /\ emitted' = {}
    /\ UNCHANGED <<statusSeries, approvalSeries, stageSeries>>
    /\ UNCHANGED metricFrame

\* The controller records a status condition observed at the current generation.
UpdateRunStatus ==
    /\ \E type \in RunCondTypes, st \in CondStatuses :
          updateRun' = [updateRun EXCEPT !.Conditions =
              SetStatusCondition(@, [Type |-> type, Status |-> st,
                                     ObservedGeneration |-> updateRun.Generation,
                                     Reason |-> ReasonFor(type, st)])]
    /\ metricOp' = "none"
    /\ emitted' = {}
    /\ UNCHANGED <<statusSeries, approvalSeries, stageSeries>>
    /\ UNCHANGED metricFrame

\* One call of emitUpdateRunStatusMetric on the update run.
EmitUpdateRunStatusMetric ==
    /\ Cardinality(statusSeries \cup emitUpdateRunStatusMetric(updateRun)) <= MaxSeries
    /\ statusSeries' = statusSeries \cup emitUpdateRunStatusMetric(updateRun)
    /\ emitted' = emitUpdateRunStatusMetric(updateRun)
    /\ metricOp' = "emit"
    /\ UNCHANGED <<updateRun, approvalSeries, stageSeries>>
    /\ UNCHANGED metricFrame

\* One call of deleteUpdateRunMetrics on the update run.
DeleteUpdateRunMetrics ==
    /\ LET after == deleteUpdateRunMetrics(
                        RunMetrics(statusSeries, approvalSeries, stageSeries), updateRun)
       IN  /\ statusSeries' = after.status
           /\ stageSeries' = after.stage
           /\ approvalSeries' = after.approval
    /\ metricOp' = "delete"
    /\ emitted' = {}
    /\ UNCHANGED updateRun
    /\ UNCHANGED metricFrame

MetricsNext ==
    \/ CreateUpdateRun
    \/ UpdateRunSpec
    \/ UpdateRunStatus
    \/ EmitUpdateRunStatusMetric
    \/ DeleteUpdateRunMetrics

SpecMetrics == MetricsInit /\ [][MetricsNext]_vars

(***************************************************************************)
(* Properties of emitUpdateRunStatusMetric.                                *)
(***************************************************************************)
\* Priority of a run condition type in the emitter: lower is consulted first.
Rank(type) ==
    IF type = StagedUpdateRunConditionSucceeded THEN 1
    ELSE IF type = StagedUpdateRunConditionProgressing THEN 2
    ELSE 3

\* The run carries a condition of this type.
HasRunCond(run, type) ==
    \E i \in 1..Len(run.Conditions) : run.Conditions[i].Type = type

\* The condition of this type the run carries (each type occurs at most once).
RunCond(run, type) ==
    run.Conditions[CHOOSE i \in 1..Len(run.Conditions) : run.Conditions[i].Type = type]

\* The condition types the run carries at its current generation.
CurrentTypes(run) ==
    {t \in RunCondTypes :
        HasRunCond(run, t) /\ RunCond(run, t).ObservedGeneration = run.Generation}

\* The series belongs to the run the call was made for.
LabelsOfRun(l, run) ==
    l.namespace = run.Namespace /\ l.name = run.Name /\ l.state = run.State

\* C9 (as stated): the series written by a call of emitUpdateRunStatusMetric
\* is always labelled with a condition whose status is True.
C9_WrittenStatusIsTrue ==
    metricOp = "emit" => \A l \in emitted : l.status = "True"

\* C9 (amended): the series written by a call is labelled with the
\* highest-priority condition, in the order Succeeded, Progressing,
\* Initialized, among those the run carries at its current generation, and
\* its status and reason labels are that condition's own status and reason,
\* True or not.
C9_MostSpecificCurrentCondition ==
    metricOp = "emit" =>
        \A l \in emitted :
            /\ LabelsOfRun(l, updateRun)
            /\ l.condition \in CurrentTypes(updateRun)
            /\ \A t \in CurrentTypes(updateRun) : Rank(l.condition) <= Rank(t)
            /\ l.status = RunCond(updateRun, l.condition).Status
            /\ l.reason = RunCond(updateRun, l.condition).Reason

\* A call wrote the Succeeded series with status False although a Progressing
\* condition with status True was current too.
C9_Witness ==
    /\ metricOp = "emit"
    /\ \E l \in emitted :
          l.condition = StagedUpdateRunConditionSucceeded /\ l.status = "False"
    /\ StagedUpdateRunConditionProgressing \in CurrentTypes(updateRun)
    /\ RunCond(updateRun, StagedUpdateRunConditionProgressing).Status = "True"

\* C10: emitUpdateRunStatusMetric never labels a series from a stale
\* condition: what it writes comes from the first of Succeeded, Progressing,
\* Initialized whose observedGeneration equals the run's generation, every
\* condition consulted before it is absent or has another observedGeneration,
\* and it writes nothing when no condition carries the current generation.
C10_NoStaleCondition ==
    metricOp = "emit" =>
        /\ Cardinality(emitted) <= 1
        /\ emitted \subseteq statusSeries
        /\ (emitted = {}) <=>
              (\A t \in RunCondTypes :
                  HasRunCond(updateRun, t) =>
                      RunCond(updateRun, t).ObservedGeneration # updateRun.Generation)
        /\ \A l \in emitted :
              /\ HasRunCond(updateRun, l.condition)
              /\ RunCond(updateRun, l.condition).ObservedGeneration = updateRun.Generation
              /\ \A t \in RunCondTypes :
                    (Rank(t) < Rank(l.condition) /\ HasRunCond(updateRun, t)) =>
                        RunCond(updateRun, t).ObservedGeneration # updateRun.Generation

\* A call skipped a stale Succeeded condition and wrote a lower-priority series.
C10_Witness ==
    /\ metricOp = "emit"
    /\ HasRunCond(updateRun, StagedUpdateRunConditionSucceeded)
    /\ RunCond(updateRun, StagedUpdateRunConditionSucceeded).ObservedGeneration
          # updateRun.Generation
    /\ \E l \in emitted : l.condition # StagedUpdateRunConditionSucceeded

\* The series of the status gauge that carry the namespace and name of the run.
StatusSeriesOfRun(series, run) ==
    {l \in series : l.namespace = run.Namespace /\ l.name = run.Name}

\* C26: a call of emitUpdateRunStatusMetric writes at most one status series
\* and removes no series, of the status gauge or of the two histograms; the
\* series written earlier for the same run under other labels stay through
\* later emits, and a status series disappears only in a call of
\* deleteUpdateRunMetrics for the run it belongs to.
C26_EmitOnlyAddsOneSeries ==
    [][ /\ metricOp' = "emit" =>
              /\ statusSeries \subseteq statusSeries'
              /\ Cardinality(statusSeries' \ statusSeries) <= 1
              /\ approvalSeries' = approvalSeries
              /\ stageSeries' = stageSeries
        /\ \A l \in statusSeries \ statusSeries' :
              /\ metricOp' = "delete"
              /\ l \in StatusSeriesOfRun(statusSeries, updateRun) ]_vars

\* After an emit the run has the series just written and an earlier one
\* under other labels.
C26_Witness ==
    /\ metricOp = "emit"
    /\ emitted # {}
    /\ StatusSeriesOfRun(statusSeries, updateRun) \ emitted # {}

(***************************************************************************)
(* Specification of the scheduling of one placement.                       *)
(***************************************************************************)
\* The placement and its policy snapshot have just been created and queued;
\* the member clusters report whatever they have collected so far.
SchedInit ==
    /\ PluginIdle
    /\ MetricsIdle
    /\ StageIdle
    /\ clusters \in [ClusterNames -> FleetClusters]
    /\ policySnapshot \in {[Namespace |-> ""], [Namespace |-> TargetNamespace]}
    /\ bindings = {}
    /\ queued = TRUE
    /\ cycle = NoCycle
    /\ rejected = {}
    /\ changes = 0
    /\ finalizer = FALSE
    /\ deleting = FALSE

\* setNamespaceCollectionOnCluster: replace the inventory of a cluster and
\* set the collection condition to True or remove it; the status update of
\* the member cluster puts the placement back on the work queue.
SetNamespaceCollectionOnCluster ==
    /\ changes < MaxChanges
    /\ \E c \in ClusterNames, enabled \in BOOLEAN, namespaces \in Inventories :
          clusters' = [clusters EXCEPT ![c] =
              [@ EXCEPT !.Namespaces = namespaces,
                        !.Conditions =
                            IF enabled
                            THEN SetStatusCondition(@,
                                     Cond(NamespaceCollectionSucceededCondType, "True"))
                            ELSE RemoveStatusCondition(@,
                                     NamespaceCollectionSucceededCondType)]]
    /\ changes' = changes + 1
    /\ queued' = TRUE
    /\ UNCHANGED <<policySnapshot, bindings, cycle, rejected, finalizer, deleting>>
    /\ UNCHANGED schedFrame

\* clearNamespaceCollectionOnCluster: drop the inventory and the condition.
ClearNamespaceCollectionOnCluster ==
    /\ changes < MaxChanges
    /\ \E c \in ClusterNames :
          clusters' = [clusters EXCEPT ![c] =
              [@ EXCEPT !.Namespaces = NilMap,
                        !.Conditions =
                            RemoveStatusCondition(@, NamespaceCollectionSucceededCondType)]]
    /\ changes' = changes + 1
    /\ queued' = TRUE
    /\ UNCHANGED <<policySnapshot, bindings, cycle, rejected, finalizer, deleting>>
    /\ UNCHANGED schedFrame

\* The periodic resync puts the placement back on the work queue.
Resync ==
    /\ ~queued
    /\ queued' = TRUE
    /\ UNCHANGED <<clusters, policySnapshot, bindings, cycle, rejected, changes,
                   finalizer, deleting>>
    /\ UNCHANGED schedFrame

\* One scheduling cycle of the placement: PreFilter of every plugin, the
\* filter chain on every cluster of the inventory, then the bindings are
\* brought in line with the eligible clusters (missing ones created,
\* obsolete ones removed) and the placement gets the scheduler cleanup
\* finalizer.  A cycle aborted by PreFilter is requeued.
RunSchedulingCycle ==
    /\ queued
    /\ ~deleting
    /\ LET skipped  == SkippedPlugins(policySnapshot)
           reasons  == [c \in ClusterNames |->
                           RunFilterPlugins(Plugins, skipped, policySnapshot, clusters[c])]
           calls    == UNION { {<<pl, c>> :
                                  pl \in InvokedFilters(Plugins, skipped,
                                                        policySnapshot, clusters[c])} :
                               c \in ClusterNames }
           eligible == {c \in ClusterNames : IsSuccess(reasons[c])}
       IN  IF PreFilterAborts(policySnapshot)
           THEN /\ queued' = TRUE
                /\ UNCHANGED <<bindings, cycle, rejected, finalizer>>
           ELSE /\ queued' = FALSE
                /\ finalizer' = TRUE
                /\ bindings' = eligible
                /\ cycle' = [done |-> TRUE, skipped |-> skipped,
                             filterCalls |-> calls, reasons |-> reasons]
                /\ rejected' = rejected \cup
                      {c \in ClusterNames : reasons[c].message = NamespaceMissingMsg}
    /\ UNCHANGED <<clusters, policySnapshot, changes, deleting>>
    /\ UNCHANGED schedFrame

SchedNext ==
    \/ SetNamespaceCollectionOnCluster
    \/ ClearNamespaceCollectionOnCluster
    \/ Resync
    \/ RunSchedulingCycle

SpecSched == SchedInit /\ [][SchedNext]_vars

\* The work queue hands every queued placement to a worker.
FairSpecSched == SchedInit /\ [][SchedNext]_vars /\ WF_vars(RunSchedulingCycle)

(***************************************************************************)
(* Specification of the scheduler with the deletion of the placement: the  *)
(* scheduler removes the bindings of a placement that is being deleted,    *)
(* then its cleanup finalizer.                                             *)
(***************************************************************************)
\* The user deletes the placement.
DeletePlacement ==
    /\ ~deleting
    /\ deleting' = TRUE
    /\ queued' = TRUE
    /\ UNCHANGED <<clusters, policySnapshot, bindings, cycle, rejected, changes, finalizer>>
    /\ UNCHANGED schedFrame

\* The scheduler deletes a binding of the placement being deleted.
DeleteBinding ==
    /\ deleting
    /\ finalizer
    /\ \E c \in bindings : bindings' = bindings \ {c}
    /\ UNCHANGED <<clusters, policySnapshot, queued, cycle, rejected, changes,
                   finalizer, deleting>>
    /\ UNCHANGED schedFrame

\* The scheduler removes the cleanup finalizer from the placement.
RemoveFinalizer ==
    /\ deleting
    /\ finalizer
    /\ CanRemoveFinalizer(bindings)
    /\ finalizer' = FALSE
    /\ queued' = FALSE
    /\ UNCHANGED <<clusters, policySnapshot, bindings, cycle, rejected, changes, deleting>>
    /\ UNCHANGED schedFrame

CleanupNext ==
    \/ SetNamespaceCollectionOnCluster
    \/ ClearNamespaceCollectionOnCluster
    \/ Resync
    \/ RunSchedulingCycle
    \/ DeletePlacement
    \/ DeleteBinding
    \/ RemoveFinalizer

SpecCleanup == SchedInit /\ [][CleanupNext]_vars

(***************************************************************************)
(* Properties of the scheduling cycle.                                     *)
(***************************************************************************)
HealthyClusters == {c \in ClusterNames : clusters[c].Healthy}

\* The cluster reports namespace collection but its inventory lacks the namespace.
LacksNamespace(mc, ns) ==
    HasCollectionCond(mc) /\ ~MapHasKey(mc.Namespaces, ns)

\* The cluster has the namespace, or does not report namespace collection.
HasNamespaceOrNoCollection(mc, ns) ==
    (~HasCollectionCond(mc)) \/ MapHasKey(mc.Namespaces, ns)

\* C6: a plugin whose PreFilter returned Skip has its Filter invoked for no
\* cluster of the cycle; in particular, for a cluster-scoped placement the
\* namespace-affinity plugin is skipped and the placement is bound to every
\* healthy cluster, whatever condition and inventory the clusters report.
C6_SkippedPluginNeverFilters ==
    cycle.done =>
        /\ \A call \in cycle.filterCalls : call[1] \notin cycle.skipped
        /\ policySnapshot.Namespace = "" =>
              /\ "NamespaceAffinity" \in cycle.skipped
              /\ bindings = HealthyClusters

C6_Witness ==
    /\ cycle.done
    /\ policySnapshot.Namespace = ""
    /\ \E c \in bindings :
          /\ HasCollectionCond(clusters[c])
          /\ clusters[c].Namespaces.isNil
    /\ \E c \in bindings :
          /\ HasCollectionCond(clusters[c])
          /\ ~clusters[c].Namespaces.isNil
          /\ DOMAIN clusters[c].Namespaces.entries = {"other-ns"}

\* C7: once a cycle has run on the current inventory, bindings exist exactly
\* for the eligible clusters: for a namespace-scoped placement, for each
\* healthy cluster that has the target namespace or reports no namespace
\* collection, and for no cluster whose collection is enabled but whose
\* inventory lacks the namespace.
C7_BindingsAreEligibleClusters ==
    (cycle.done /\ ~queued /\ policySnapshot.Namespace # "") =>
        /\ bindings =
              {c \in HealthyClusters :
                  HasNamespaceOrNoCollection(clusters[c], policySnapshot.Namespace)}
        /\ \A c \in ClusterNames :
              LacksNamespace(clusters[c], policySnapshot.Namespace) => c \notin bindings

C7_Witness ==
    /\ cycle.done
    /\ ~queued
    /\ policySnapshot.Namespace = TargetNamespace
    /\ \E c \in bindings : MapHasKey(clusters[c].Namespaces, TargetNamespace)
    /\ \E c \in HealthyClusters :
          /\ c \notin bindings
          /\ LacksNamespace(clusters[c], TargetNamespace)
          /\ cycle.reasons[c].message = NamespaceMissingMsg

\* C8: a cluster that was rejected for lacking the target namespace and
\* whose inventory then has the namespace for good eventually gets a binding
\* for the same policy snapshot, and the binding stays.
C8_BindingAfterNamespaceAdded ==
    \A c \in ClusterNames :
        <>[](c \in rejected /\ MapHasKey(clusters[c].Namespaces, TargetNamespace))
            => <>[](c \in bindings)

C8_Witness ==
    \E c \in ClusterNames :
        /\ c \in rejected
        /\ HasCollectionCond(clusters[c])
        /\ MapHasKey(clusters[c].Namespaces, TargetNamespace)
        /\ c \in bindings
        /\ ~queued

(***************************************************************************)
(* Specification of the latency and duration recorders: the update run,    *)
(* the stage task and the stage are given, the recorders are called on     *)
(* them over and over while the clock advances.                            *)
(***************************************************************************)
RecordInit ==
    /\ PluginIdle
    /\ SchedIdle
    /\ updateRun \in { [NewUpdateRun(CHOOSE k \in RunKeys : TRUE) EXCEPT !.Generation = g] :
                          g \in 1..MaxGen }
    /\ statusSeries = {}
    /\ approvalSeries = <<>>
    /\ stageSeries = <<>>
    /\ metricOp = "none"
    /\ emitted = {}
    /\ stageTaskStatus \in StageTaskStatuses
    /\ stageStatus \in {[StartTime |-> NilTime]} \cup {[StartTime |-> TimeAt(t)] : t \in 0..MaxTime}
    /\ now \in 0..MaxTime
    /\ (~stageStatus.StartTime.isNil) => stageStatus.StartTime.Time <= now
    /\ deletedRuns = {}
    /\ OptionsIdle

\* The wall clock advances by a second.
Tick ==
    /\ now < MaxTime
    /\ now' = now + 1
    /\ metricOp' = "none"
    /\ UNCHANGED <<updateRun, statusSeries, approvalSeries, stageSeries, emitted,
                   stageTaskStatus, stageStatus>>
    /\ UNCHANGED recordFrame

\* One call of recordApprovalRequestLatency on the stage task.
RecordApprovalRequestLatency ==
    /\ \E taskType \in TaskTypes :
          LET obs == recordApprovalRequestLatency(stageTaskStatus, updateRun, taskType)
          IN  /\ \A l \in DOMAIN ObserveAll(approvalSeries, obs) :
                    Len(ObserveAll(approvalSeries, obs)[l]) <= MaxSamples
              /\ approvalSeries' = ObserveAll(approvalSeries, obs)
    /\ metricOp' = "recordApproval"
    /\ UNCHANGED <<updateRun, statusSeries, stageSeries, emitted,
                   stageTaskStatus, stageStatus, now>>
    /\ UNCHANGED recordFrame

\* One call of recordStageClusterUpdatingDuration on the stage.
RecordStageClusterUpdatingDuration ==
    /\ LET obs == recordStageClusterUpdatingDuration(stageStatus, updateRun, now)
       IN  /\ \A l \in DOMAIN ObserveAll(stageSeries, obs) :
                 Len(ObserveAll(stageSeries, obs)[l]) <= MaxSamples
           /\ stageSeries' = ObserveAll(stageSeries, obs)
    /\ metricOp' = "recordStage"
    /\ UNCHANGED <<updateRun, statusSeries, approvalSeries, emitted,
                   stageTaskStatus, stageStatus, now>>
    /\ UNCHANGED recordFrame

RecordNext ==
    \/ Tick
    \/ RecordApprovalRequestLatency
    \/ RecordStageClusterUpdatingDuration

SpecRecord == RecordInit /\ [][RecordNext]_vars

(***************************************************************************)
(* Specification of the metric clean-up: runs of several namespaces and    *)
(* names are reported on, observed and deleted in any order.               *)
(***************************************************************************)
\* Runs that share a namespace, and runs that share a name.
FleetRunKeys == { <<"ns-a", "run-1">>, <<"ns-a", "run-2">>, <<"ns-b", "run-1">> }

\* The runs handed to the emitter: a run that succeeded, and one that waits.
ReportedRuns ==
    { [NewUpdateRun(k) EXCEPT !.Conditions =
          <<[Type |-> c[1], Status |-> c[2], ObservedGeneration |-> 1,
             Reason |-> ReasonFor(c[1], c[2])]>>] :
        k \in FleetRunKeys,
        c \in { <<StagedUpdateRunConditionSucceeded, "True">>,
                <<StagedUpdateRunConditionProgressing, "False">> } }

\* An approved stage task of a run at its first generation.
ApprovedTask ==
    [Conditions |-> << TaskCond(StageTaskConditionApprovalRequestCreated, "True", 1, 0),
                       TaskCond(StageTaskConditionApprovalRequestApproved, "True", 1, 0) >>]

\* The number of series the three vectors hold together.
TotalSeries(metrics) ==
    Cardinality(metrics.status) + Cardinality(DOMAIN metrics.approval)
        + Cardinality(DOMAIN metrics.stage)

\* No series holds more than n samples.
AtMostSamples(vec, n) == \A l \in DOMAIN vec : Len(vec[l]) <= n

DeleteInit ==
    /\ PluginIdle
    /\ SchedIdle
    /\ updateRun = NewUpdateRun(CHOOSE k \in RunKeys : TRUE)
    /\ statusSeries = {}
    /\ approvalSeries = <<>>
    /\ stageSeries = <<>>
    /\ metricOp = "none"
    /\ emitted = {}
    /\ stageTaskStatus = ApprovedTask
    /\ stageStatus = [StartTime |-> TimeAt(0)]
    /\ now = 0
    /\ deletedRuns = {}
    /\ OptionsIdle

\* emitUpdateRunStatusMetric(run) for one of the runs.
EmitForRun ==
    \E run \in ReportedRuns :
        LET after == RunMetrics(statusSeries \cup emitUpdateRunStatusMetric(run),
                                approvalSeries, stageSeries)
        IN  /\ TotalSeries(after) <= MaxTotalSeries
            /\ statusSeries' = after.status
            /\ updateRun' = run
            /\ metricOp' = "emit"
            /\ UNCHANGED <<approvalSeries, stageSeries, deletedRuns>>
            /\ UNCHANGED deleteFrame

\* recordApprovalRequestLatency(task, run, taskType) for one of the runs.
RecordApprovalForRun ==
    \E k \in FleetRunKeys, taskType \in TaskTypes :
        LET run == NewUpdateRun(k)
            after == RunMetrics(statusSeries,
                        ObserveAll(approvalSeries,
                            recordApprovalRequestLatency(stageTaskStatus, run, taskType)),
                        stageSeries)
        IN  /\ TotalSeries(after) <= MaxTotalSeries
            /\ AtMostSamples(after.approval, 1)
            /\ approvalSeries' = after.approval
            /\ updateRun' = run
            /\ metricOp' = "recordApproval"
            /\ UNCHANGED <<statusSeries, stageSeries, deletedRuns>>
            /\ UNCHANGED deleteFrame

\* recordStageClusterUpdatingDuration(stage, run) for one of the runs.
RecordStageForRun ==
    \E k \in FleetRunKeys :
        LET run == NewUpdateRun(k)
            after == RunMetrics(statusSeries, approvalSeries,
                        ObserveAll(stageSeries,
                            recordStageClusterUpdatingDuration(stageStatus, run, now)))
        IN  /\ TotalSeries(after) <= MaxTotalSeries
            /\ AtMostSamples(after.stage, 1)
            /\ stageSeries' = after.stage
            /\ updateRun' = run
            /\ metricOp' = "recordStage"
            /\ UNCHANGED <<statusSeries, approvalSeries, deletedRuns>>
            /\ UNCHANGED deleteFrame

\* deleteUpdateRunMetrics(run): the deletion of one of the runs is handled.
DeleteMetricsOfRun ==
    \E k \in FleetRunKeys :
        LET run == NewUpdateRun(k)
            after == deleteUpdateRunMetrics(
                        RunMetrics(statusSeries, approvalSeries, stageSeries), run)
        IN  /\ statusSeries' = after.status
            /\ approvalSeries' = after.approval
            /\ stageSeries' = after.stage
            /\ deletedRuns' = deletedRuns \cup {k}
            /\ updateRun' = run
            /\ metricOp' = "delete"
            /\ UNCHANGED deleteFrame

DeleteNext ==
    \/ EmitForRun
    \/ RecordApprovalForRun
    \/ RecordStageForRun
    \/ DeleteMetricsOfRun

SpecDelete == DeleteInit /\ [][DeleteNext]_vars

(***************************************************************************)
(* Properties of the latency and duration recorders.                       *)
(***************************************************************************)
\* The stage task carries a condition of this type that is True and was
\* observed at the generation of the run.
TaskCondCurrentAndTrue(type) ==
    \E i \in 1..Len(stageTaskStatus.Conditions) :
        /\ stageTaskStatus.Conditions[i].Type = type
        /\ stageTaskStatus.Conditions[i].Status = "True"
        /\ stageTaskStatus.Conditions[i].ObservedGeneration = updateRun.Generation

BothApprovalCondsCurrentAndTrue ==
    /\ TaskCondCurrentAndTrue(StageTaskConditionApprovalRequestCreated)
    /\ TaskCondCurrentAndTrue(StageTaskConditionApprovalRequestApproved)

\* The samples of a series of a histogram, none when the series does not exist.
SamplesOf(vec, labels) == IF labels \in DOMAIN vec THEN vec[labels] ELSE <<>>

\* The step adds exactly one sample to the histogram, in one series, and
\* keeps every sample that was there.
AddsOneSample(vec, vecNext) ==
    /\ DOMAIN vec \subseteq DOMAIN vecNext
    /\ \E l \in DOMAIN vecNext :
          /\ Len(vecNext[l]) = Len(SamplesOf(vec, l)) + 1
          /\ SubSeq(vecNext[l], 1, Len(vecNext[l]) - 1) = SamplesOf(vec, l)
          /\ \A m \in DOMAIN vecNext \ {l} : m \in DOMAIN vec /\ vecNext[m] = vec[m]

\* C11: a call of recordApprovalRequestLatency adds a sample only when both
\* the ApprovalRequestCreated and the ApprovalRequestApproved condition of the
\* task are present, True and observed at the run's generation; in every
\* other case the histogram is left as it was.
C11_LatencyOnlyWhenBothCurrent ==
    [][ metricOp' = "recordApproval" =>
          IF BothApprovalCondsCurrentAndTrue
          THEN AddsOneSample(approvalSeries, approvalSeries')
          ELSE approvalSeries' = approvalSeries ]_vars

C11_Witness ==
    /\ metricOp = "recordApproval"
    /\ BothApprovalCondsCurrentAndTrue
    /\ approvalSeries # <<>>

\* C12: approval latency is recorded at most once per run generation and
\* task: while the generation and the approval conditions of the task stay
\* as they are, a series that holds a sample of the task gets no further one.
C12_LatencyRecordedOnce ==
    [][ UNCHANGED <<updateRun, stageTaskStatus>> =>
          \A l \in DOMAIN approvalSeries :
              SamplesOf(approvalSeries', l) = approvalSeries[l] ]_vars

SeriesLabels(metrics) ==
    [status |-> metrics.status, approval |-> DOMAIN metrics.approval,
     stage |-> DOMAIN metrics.stage]

AllSeriesLabels(metrics) ==
    SeriesLabels(metrics).status \cup SeriesLabels(metrics).approval
        \cup SeriesLabels(metrics).stage

\* The series is labelled with this namespace and name.
OfRunKey(l, k) == l.namespace = k[1] /\ l.name = k[2]

CurrentMetrics == RunMetrics(statusSeries, approvalSeries, stageSeries)

\* C13: once deleteUpdateRunMetrics has handled the deletion of a run, no
\* series labelled with the namespace and name of that run exists in any of
\* the three metrics, whatever call is made for the run afterwards.
C13_NoSeriesAfterDeletion ==
    \A k \in deletedRuns :
        \A l \in AllSeriesLabels(CurrentMetrics) : ~OfRunKey(l, k)

\* C14: one call of deleteUpdateRunMetrics leaves no series of the run in
\* any of the three metrics, whatever the other labels, and leaves every
\* series of a run of another namespace or another name as it was, samples
\* included; it adds no series.
C14_DeleteRemovesExactlyTheRun ==
    [][ metricOp' = "delete" =>
          LET k == <<updateRun'.Namespace, updateRun'.Name>>
          IN  /\ \A l \in AllSeriesLabels(RunMetrics(statusSeries', approvalSeries', stageSeries')) :
                    ~OfRunKey(l, k)
              /\ \A l \in statusSeries : ~OfRunKey(l, k) => l \in statusSeries'
              /\ \A l \in DOMAIN approvalSeries :
                    ~OfRunKey(l, k) => l \in DOMAIN approvalSeries' /\ approvalSeries'[l] = approvalSeries[l]
              /\ \A l \in DOMAIN stageSeries :
                    ~OfRunKey(l, k) => l \in DOMAIN stageSeries' /\ stageSeries'[l] = stageSeries[l]
              /\ statusSeries' \subseteq statusSeries
              /\ DOMAIN approvalSeries' \subseteq DOMAIN approvalSeries
              /\ DOMAIN stageSeries' \subseteq DOMAIN stageSeries ]_vars

\* A run was deleted while a run of the same namespace and a run of the same
\* name had series: these are still there, in two different metrics.
C14_Witness ==
    /\ metricOp = "delete"
    /\ \E l \in DOMAIN approvalSeries :
          l.namespace = updateRun.Namespace /\ l.name # updateRun.Name
    /\ \E l \in statusSeries :
          l.namespace # updateRun.Namespace /\ l.name = updateRun.Name
    /\ \A l \in AllSeriesLabels(CurrentMetrics) :
          ~OfRunKey(l, <<updateRun.Namespace, updateRun.Name>>)

(***************************************************************************)
(* Specification of the validation: any options, validated once or more.   *)
(***************************************************************************)
ValidateInit ==
    /\ PluginIdle
    /\ MetricsIdle
    /\ SchedIdle
    /\ stageTaskStatus = [Conditions |-> <<>>]
    /\ stageStatus = [StartTime |-> NilTime]
    /\ now = 0
    /\ deletedRuns = {}
    /\ options \in OptionsDomain
    /\ errs = <<>>
    /\ validated = FALSE
    /\ LimiterIdle
    /\ OrchIdle
    /\ FlagsIdle

\* errs := o.Validate()
CallValidate ==
    /\ errs' = Validate(options)
    /\ validated' = TRUE
    /\ UNCHANGED options
    /\ UNCHANGED optionFrame

ValidateNext == CallValidate

SpecValidate == ValidateInit /\ [][ValidateNext]_vars

(***************************************************************************)
(* Properties of the validation.                                           *)
(***************************************************************************)
RateLimiterOpts == options.PlacementMgmtOpts.PlacementControllerWorkQueueRateLimiterOpts

\* The six cross-option rules, numbered in the order of the checks: whether
\* the options violate the rule, and the field and value the error names.
RuleViolated(i) ==
    CASE i = 1 -> options.CtrlMgrOpts.HubBurst < options.CtrlMgrOpts.HubQPS
      [] i = 2 -> options.WebhookOpts.EnableWebhooks /\ options.WebhookOpts.ServiceName = ""
      [] i = 3 -> options.WebhookOpts.UseCertManager /\ ~options.WebhookOpts.EnableWorkload
      [] i = 4 -> /\ options.PlacementMgmtOpts.AllowedPropagatingAPIs # ""
                  /\ options.PlacementMgmtOpts.SkippedPropagatingAPIs # ""
      [] i = 5 -> ~(RateLimiterOpts.RateLimiterBaseDelay < RateLimiterOpts.RateLimiterMaxDelay)
      [] i = 6 -> RateLimiterOpts.RateLimiterQPS > RateLimiterOpts.RateLimiterBucketSize

RuleField(i) ==
    CASE i = 1 -> "Options.HubBurst"
      [] i = 2 -> "Options.WebhookServiceName"
      [] i = 3 -> "Options.UseCertManager"
      [] i = 4 -> "Options.AllowedPropagatingAPIs"
      [] i = 5 -> "Options.PlacementControllerWorkQueueRateLimiterOpts.RateLimiterBaseDelay"
      [] i = 6 -> "Options.PlacementControllerWorkQueueRateLimiterOpts.RateLimiterQPS"

RuleValue(i) ==
    CASE i = 1 -> IntValue(options.CtrlMgrOpts.HubBurst)
      [] i = 2 -> StringValue(options.WebhookOpts.ServiceName)
      [] i = 3 -> BoolValue(options.WebhookOpts.UseCertManager)
      [] i = 4 -> StringValue(options.PlacementMgmtOpts.AllowedPropagatingAPIs)
      [] i = 5 -> DurationValue(RateLimiterOpts.RateLimiterBaseDelay)
      [] i = 6 -> IntValue(RateLimiterOpts.RateLimiterQPS)

ViolatedRules == {i \in 1..6 : RuleViolated(i)}

C20_BucketSizeAboveQPS ==
    (validated /\ ~(RateLimiterOpts.RateLimiterQPS < RateLimiterOpts.RateLimiterBucketSize)) =>
        \E j \in 1..Len(errs) : errs[j].field = RuleField(6)

(***************************************************************************)
(* Specification of the rate limiter: items fail and are retried, succeed  *)
(* and are forgotten, while the clock advances.                            *)
(***************************************************************************)
LimiterInit ==
    /\ PluginIdle
    /\ MetricsIdle
    /\ SchedIdle
    /\ stageTaskStatus = [Conditions |-> <<>>]
    /\ stageStatus = [StartTime |-> NilTime]
    /\ now = 0
    /\ deletedRuns = {}
    /\ options = newTestOptions
    /\ errs = <<>>
    /\ validated = FALSE
    /\ \E opts \in LimiterOptions : rateLimiter = DefaultControllerRateLimiter(opts)
    /\ wqClock = 0
    /\ limOp = "none"
    /\ limItem = CHOOSE i \in Items : TRUE
    /\ delay = 0
    /\ whenCalls = 0
    /\ ticks = 0
    /\ OrchIdle
    /\ FlagsIdle

\* The work-queue clock advances.
AdvanceClock ==
    /\ ticks < MaxTicks
    /\ \E d \in ClockSteps : wqClock' = wqClock + d
    /\ ticks' = ticks + 1
    /\ limOp' = "none"
    /\ UNCHANGED <<rateLimiter, limItem, delay, whenCalls>>
    /\ UNCHANGED limiterFrame

\* AddRateLimited(item): the item failed and the limiter is asked for its delay.
CallWhen ==
    /\ whenCalls < MaxCalls
    /\ \E item \in Items :
          /\ NumRequeues(rateLimiter, item) < MaxFailures
          /\ rateLimiter' = When(rateLimiter, item, wqClock).lim
          /\ delay' = When(rateLimiter, item, wqClock).delay
          /\ limItem' = item
    /\ limOp' = "when"
    /\ whenCalls' = whenCalls + 1
    /\ UNCHANGED <<wqClock, ticks>>
    /\ UNCHANGED limiterFrame

\* Forget(item): the item was processed with success.
CallForget ==
    /\ \E item \in Items :
          /\ rateLimiter' = Forget(rateLimiter, item)
          /\ limItem' = item
    /\ limOp' = "forget"
    /\ delay' = 0
    /\ UNCHANGED <<wqClock, whenCalls, ticks>>
    /\ UNCHANGED limiterFrame

LimiterNext ==
    \/ AdvanceClock
    \/ CallWhen
    \/ CallForget

SpecLimiter == LimiterInit /\ [][LimiterNext]_vars

(***************************************************************************)
(* Properties of the rate limiter.                                         *)
(***************************************************************************)
\* base * 2^(n-1), by repeated doubling.
RECURSIVE Doubled(_, _)
Doubled(base, n) == IF n <= 1 THEN base ELSE 2 * Doubled(base, n - 1)

\* The exponential backoff of the n-th consecutive failure of an item.
ExpectedBackoff(n) ==
    IF Doubled(rateLimiter.baseDelay, n) < rateLimiter.maxDelay
    THEN Doubled(rateLimiter.baseDelay, n)
    ELSE rateLimiter.maxDelay

\* The wait the token bucket imposes on a reservation made now: nothing while
\* a whole token is there, else the time the missing part takes at the rate.
ExpectedBucketWait ==
    LET gained == rateLimiter.limit * (wqClock - rateLimiter.last)
        avail == IF rateLimiter.tokens + gained > rateLimiter.burst * 1000
                 THEN rateLimiter.burst * 1000
                 ELSE rateLimiter.tokens + gained
    IN  IF avail >= 1000 THEN 0 ELSE (1000 - avail) \div rateLimiter.limit

\* C18: the delay of a retried item is the larger of the exponential backoff
\* min(base * 2^(n-1), maxDelay), n being the item's consecutive failures
\* since it was last forgotten, this one included, and the wait of the token
\* bucket; after Forget the item has no failure and its next delay starts
\* again from the base delay.
C18_DelayIsMaxOfBackoffAndBucket ==
    [][ /\ limOp' = "when" =>
              LET n == NumRequeues(rateLimiter, limItem') + 1
              IN  /\ delay' = IF ExpectedBackoff(n) >= ExpectedBucketWait
                              THEN ExpectedBackoff(n) ELSE ExpectedBucketWait
                  /\ NumRequeues(rateLimiter', limItem') = n
        /\ limOp' = "forget" => NumRequeues(rateLimiter', limItem') = 0
        /\ (limOp = "forget" /\ limOp' = "when" /\ limItem' = limItem) =>
              delay' >= rateLimiter.baseDelay /\ (delay' = rateLimiter.baseDelay \/ delay' = ExpectedBucketWait)
      ]_vars

\* An item failed four times in a row and its delay is the max delay, the
\* doubled base delay being above it.
C18_Witness ==
    /\ limOp = "when"
    /\ NumRequeues(rateLimiter, limItem) = 4
    /\ delay = rateLimiter.maxDelay
    /\ rateLimiter.baseDelay * 8 > rateLimiter.maxDelay

(***************************************************************************)
(* Specification of the staged update-run orchestrator.                    *)
(***************************************************************************)
OrchInit ==
    /\ PluginIdle
    /\ MetricsIdle
    /\ SchedIdle
    /\ stageTaskStatus = [Conditions |-> <<>>]
    /\ stageStatus = [StartTime |-> NilTime]
    /\ now = 0
    /\ deletedRuns = {}
    /\ options = newTestOptions
    /\ errs = <<>>
    /\ validated = FALSE
    /\ LimiterIdle
    /\ FlagsIdle
    /\ runState = "Created"
    /\ approvalRequired \in [Stages -> BOOLEAN]
    /\ currentStage = 0
    /\ tasks = [t \in StageTasks |-> "pending"]

\* Initialization: the stage plan is computed.
InitializeRun ==
    /\ runState = "Created"
    /\ runState' = "Initialized"
    /\ UNCHANGED <<approvalRequired, currentStage, tasks>>
    /\ UNCHANGED orchFrame

\* The run starts with its first stage.
StartRun ==
    /\ runState = "Initialized"
    /\ runState' = "Progressing"
    /\ currentStage' = 1
    /\ UNCHANGED <<approvalRequired, tasks>>
    /\ UNCHANGED orchFrame

\* An approval request is created for a task of the stage in progress.
RequestApproval ==
    /\ runState = "Progressing"
    /\ \E c \in StageClusters :
          /\ approvalRequired[currentStage]
          /\ tasks[<<currentStage, c>>] = "pending"
          /\ tasks' = [tasks EXCEPT ![<<currentStage, c>>] = "ApprovalRequestCreated"]
    /\ UNCHANGED <<runState, approvalRequired, currentStage>>
    /\ UNCHANGED orchFrame

\* The user approves the request of a task.
ApproveRequest ==
    /\ runState = "Progressing"
    /\ \E t \in StageTasks :
          /\ tasks[t] = "ApprovalRequestCreated"
          /\ tasks' = [tasks EXCEPT ![t] = "ApprovalRequestApproved"]
    /\ UNCHANGED <<runState, approvalRequired, currentStage>>
    /\ UNCHANGED orchFrame

\* A task of the stage in progress is dispatched, or skipped.
DispatchTask ==
    /\ runState = "Progressing"
    /\ \E c \in StageClusters, outcome \in {"updating", "skipped"} :
          /\ ReadyForDispatch(tasks, approvalRequired, <<currentStage, c>>)
          /\ tasks' = [tasks EXCEPT ![<<currentStage, c>>] = outcome]
    /\ UNCHANGED <<runState, approvalRequired, currentStage>>
    /\ UNCHANGED orchFrame

\* A dispatched task ends: it succeeds, or fails; the failure policy of the
\* run either tolerates the failure or fails the run.
FinishTask ==
    /\ runState = "Progressing"
    /\ \E t \in StageTasks, outcome \in {"succeeded", "toleratedFailure", "failed"} :
          /\ tasks[t] = "updating"
          /\ tasks' = [tasks EXCEPT ![t] = outcome]
          /\ runState' = IF outcome = "failed" THEN "Failed" ELSE runState
    /\ UNCHANGED <<approvalRequired, currentStage>>
    /\ UNCHANGED orchFrame

\* The stage in progress is complete: the next one begins, or the run has
\* succeeded.
AdvanceStage ==
    /\ runState = "Progressing"
    /\ StageComplete(tasks, currentStage)
    /\ IF currentStage < MaxStages
       THEN currentStage' = currentStage + 1 /\ UNCHANGED runState
       ELSE runState' = "Succeeded" /\ UNCHANGED currentStage
    /\ UNCHANGED <<approvalRequired, tasks>>
    /\ UNCHANGED orchFrame

OrchNext ==
    \/ InitializeRun
    \/ StartRun
    \/ RequestApproval
    \/ ApproveRequest
    \/ DispatchTask
    \/ FinishTask
    \/ AdvanceStage

SpecOrch == OrchInit /\ [][OrchNext]_vars

(***************************************************************************)
(* Properties of the staged update-run orchestrator.                       *)
(***************************************************************************)
\* C16: stages execute strictly in declared order: whenever a task of stage
\* N+1 has begun dispatch, every task of stage N is terminal (succeeded,
\* tolerated failure or skipped).
C16_StagesInOrder ==
    \A t \in StageTasks :
        (t[1] > 1 /\ tasks[t] \in DispatchedStates) =>
            \A c \in StageClusters :
                tasks[<<t[1] - 1, c>>] \in {"succeeded", "toleratedFailure", "skipped"}

\* A task of the second stage is being updated after the first stage ended
\* with a tolerated failure and a skipped task.
C16_Witness ==
    /\ \E c \in StageClusters : tasks[<<2, c>>] = "updating"
    /\ \E c \in StageClusters : tasks[<<1, c>>] = "toleratedFailure"
    /\ \E c \in StageClusters : tasks[<<1, c>>] = "skipped"

(***************************************************************************)
(* Properties of the scheduler cleanup finalizer.                          *)
(***************************************************************************)
\* C17: the placement has the scheduler cleanup finalizer once its first
\* scheduling cycle has succeeded, the finalizer is present whenever a binding
\* of the placement exists, and it is removed only when no binding is left.
C17_FinalizerGuardsBindings ==
    /\ [](cycle.done => (finalizer \/ (deleting /\ bindings = {})))
    /\ [](bindings # {} => finalizer)
    /\ [][(finalizer /\ ~finalizer') => (bindings = {} /\ bindings' = {})]_vars

\* The placement is being deleted, one of its two bindings is gone, and the
\* finalizer is still there.
C17_Witness ==
    /\ deleting
    /\ finalizer
    /\ Cardinality(bindings) = 1
    /\ Cardinality({c \in ClusterNames : IsSuccess(cycle.reasons[c])}) = 2

\* C21: Validate requires the base delay of the rate limiter to be strictly
\* less than its max delay: the RateLimiterBaseDelay error is reported for
\* every configuration with base delay >= max delay, equal values included,
\* and for none with base delay < max delay.
C21_BaseDelayBelowMaxDelay ==
    validated =>
        ( (RateLimiterOpts.RateLimiterBaseDelay >= RateLimiterOpts.RateLimiterMaxDelay)
          <=> (\E j \in 1..Len(errs) :
                 /\ errs[j].field =
                      "Options.PlacementControllerWorkQueueRateLimiterOpts.RateLimiterBaseDelay"
                 /\ errs[j].value.int = RateLimiterOpts.RateLimiterBaseDelay) )

\* Equal base and max delays were validated and the error came back.
C21_Witness ==
    /\ validated
    /\ RateLimiterOpts.RateLimiterBaseDelay = RateLimiterOpts.RateLimiterMaxDelay
    /\ \E j \in 1..Len(errs) :
          errs[j].field =
              "Options.PlacementControllerWorkQueueRateLimiterOpts.RateLimiterBaseDelay"

(***************************************************************************)
(* Specification of the flags: after AddFlags, flags are set to strings    *)
(* in any order.                                                           *)
(***************************************************************************)
FlagsInit ==
    /\ PluginIdle
    /\ MetricsIdle
    /\ SchedIdle
    /\ stageTaskStatus = [Conditions |-> <<>>]
    /\ stageStatus = [StartTime |-> NilTime]
    /\ now = 0
    /\ deletedRuns = {}
    /\ options = newTestOptions
    /\ errs = <<>>
    /\ validated = FALSE
    /\ LimiterIdle
    /\ OrchIdle
    /\ flagValues = AddFlags
    /\ lastFlag = "none"
    /\ lastInput = ""
    /\ setErr = ""
    /\ setCalls = 0

\* flag.Set(name, str): the Set method of the flag's value is called.
CallSet ==
    /\ setCalls < MaxSetCalls
    /\ \E name \in FlagNames :
          \E str \in FlagInputs[name] :
              LET result == FlagSet(name, flagValues[name], str)
              IN  /\ flagValues' = [flagValues EXCEPT ![name] = result.value]
                  /\ setErr' = result.err
                  /\ lastFlag' = name
                  /\ lastInput' = str
    /\ setCalls' = setCalls + 1
    /\ UNCHANGED flagFrame

FlagsNext == CallSet

SpecFlags == FlagsInit /\ [][FlagsNext]_vars

(***************************************************************************)
(* Properties of the flags.                                                *)
(***************************************************************************)
\* The last Set call returned an error.
SetRejected == lastFlag # "none" /\ setErr # ""

\* C22: setting hub-api-qps to a value less than or equal to zero disables
\* the client-side throttling: the call succeeds and -1 is stored, for zero
\* as for negative values; a value of [10, 10000] is stored as given, and
\* every other value is rejected.
C22_NonPositiveQPSDisablesThrottling ==
    lastFlag = "hub-api-qps" =>
        IF lastInput \in DOMAIN IntTable /\ IntTable[lastInput] <= 0
        THEN setErr = "" /\ flagValues["hub-api-qps"] = -1
        ELSE IF lastInput \in DOMAIN IntTable /\ IntTable[lastInput] \in 10..10000
        THEN setErr = "" /\ flagValues["hub-api-qps"] = IntTable[lastInput]
        ELSE setErr # ""

\* The range the usage text of a range-validated flag documents.
DocumentedRange ==
    ("rate-limiter-base-delay" :> 1..200) @@
    ("rate-limiter-max-delay" :> 1000..300000) @@
    ("rate-limiter-qps" :> 1..1000) @@
    ("rate-limiter-bucket-size" :> 1..10000) @@
    ("hub-api-burst" :> 10..20000) @@
    ("resync-period" :> 3600000..43200000) @@
    ("cluster-unhealthy-threshold" :> 30000..3600000) @@
    ("force-delete-wait-time" :> 30000..3600000) @@
    ("concurrent-resource-change-syncs" :> 1..100) @@
    ("max-fleet-size" :> 30..200) @@
    ("max-concurrent-cluster-placement" :> 10..200) @@
    ("resource-snapshot-creation-minimum-interval" :> 0..300000) @@
    ("resource-changes-collection-duration" :> 0..60000)

\* C23: after AddFlags and any Set calls, accepted or rejected, every
\* range-validated flag holds its default or a value of its documented range.
C23_ValuesWithinDocumentedRange ==
    \A name \in DOMAIN DocumentedRange :
        \/ flagValues[name] = AddFlags[name]
        \/ flagValues[name] \in DocumentedRange[name]

\* max-fleet-size holds the upper end of its range after a value above it
\* was rejected.
C23_Witness ==
    /\ lastFlag = "max-fleet-size"
    /\ lastInput = "201"
    /\ SetRejected
    /\ flagValues["max-fleet-size"] = 200

\* C24: work-pending-grace-period is a no-op: its Set never returns an error,
\* whatever the string, and the stored value is always 15 seconds.
C24_WorkPendingGracePeriodIsNoOp ==
    /\ flagValues["work-pending-grace-period"] = 15000
    /\ lastFlag = "work-pending-grace-period" => setErr = ""

\* The flag was set to a text that is no duration, and then to an hour.
C24_Witness ==
    /\ lastFlag = "work-pending-grace-period"
    /\ lastInput = "1h"
    /\ setCalls = 2
    /\ setErr = ""

\* C28: a Set call that returns an error leaves the value of its flag, and
\* of every other flag, as it was before the call.
C28_RejectedSetChangesNothing ==
    [][ (setCalls' # setCalls /\ setErr' # "") => flagValues' = flagValues ]_vars

\* A flag that holds a value other than its default had a Set rejected.
C28_Witness ==
    /\ SetRejected
    /\ lastFlag # "enable-v1beta1-apis"
    /\ flagValues[lastFlag] # AddFlags[lastFlag]

====
